---- MODULE Spec2Model ----
(***************************************************************************)
(* A model of the RAG question-answering engine of hr-nexus                *)
(* (backend/rag_utils.py) and of the endpoints of backend/main.py that     *)
(* call it: ingestion, deletion, multi-query search with merge and         *)
(* re-ranking, answer synthesis (blocking and streaming) and batch         *)
(* indexing.                                                               *)
(*                                                                         *)
(* The vector index (Chroma), the embedding model and the language model   *)
(* are external: the index is a set of chunk records, the embedding is a   *)
(* distance table, and every language-model answer is an input chosen      *)
(* from a small set.                                                       *)
(***************************************************************************)
EXTENDS Integers, Sequences, FiniteSets, TLC

VARIABLES
    vdb,                \* the Chroma collection: a set of chunk records
    persistDir,         \* os.path.exists(Config.PERSIST_DIRECTORY)
    documents,          \* main.py documents_collection (MongoDB)
    processing_status,  \* main.py processing_status: doc_id -> status
    bgTasks,            \* background tasks queued by upload_document
    last,               \* what the last call of an entrypoint returned
    sq,                 \* one run of SearchEngine.search, step by step
    st,                 \* one run of get_answer_with_fallback, step by step
    ix,                 \* one run of DocumentProcessor.index_chunks
    th,                 \* the singletons of rag_utils and the threads that get them
    acct                \* users and invitations of an organization, and the requests on them

vars == <<vdb, persistDir, documents, processing_status, bgTasks, last, sq, st, ix, th, acct>>

mainVars == <<vdb, persistDir, documents, processing_status, bgTasks, last>>

-----------------------------------------------------------------------------
(* Bounds of the model. *)

MaxIndex == 2        \* chunks the index holds at most in Spec
MaxDocChunks == 1    \* chunks one ingested document splits into at most
MaxDocs == 1         \* documents_collection rows created at most

(* Program constants (rag_utils.Config). *)

SEARCH_K_INITIAL == 15
SEARCH_K_RERANK == 5
EXPANSION_KEYWORDS == 3
BATCH_SIZE == 100

-----------------------------------------------------------------------------
(* Values. *)

Min2(a, b) == IF a < b THEN a ELSE b

Tenants == {"org_1", "org_2"}
NoOrg == "None"                     \* Python None: no organization_id
\* The ids of documents_collection rows, in the order MongoDB gives them.
DocNames == <<"d1", "d2", "d3">>
DocIdSeq == [i \in 1..Min2(MaxDocs, Len(DocNames)) |-> DocNames[i]]
DocIds == {DocIdSeq[i] : i \in DOMAIN DocIdSeq}
\* File paths (the source_file of a chunk): a path a caller of rag_utils
\* chooses, or the path upload_document gives a file,
\* os.path.join(UPLOAD_DIR, organization_id, f"{uuid4()}_{filename}").
DirectPaths == {<<"tmp", "-", "a.txt">>}
UploadPath(org, id) == <<"uploads", org, id>>
Texts == {"leave", "dress"}         \* what a chunk is about
FileTypes == {"txt", "exe"}
SupportedTypes == {"pdf", "docx", "doc", "txt"}

\* hashlib.md5(file_path.encode()).hexdigest()[:8]: a fixed-width digest of
\* the path, taken as collision free on the paths of the model.
DocId(path) == <<"md5", path>>

\* f"{doc_id}_{chunk_idx}": doc_id has a fixed width, so the string
\* determines both parts.
ChunkKey(doc) == <<DocId(doc.source_file), doc.chunk_index>>

Range(s) == {s[i] : i \in DOMAIN s}

Take(s, n) == SubSeq(s, 1, Min2(n, Len(s)))

RECURSIVE SeqSum(_)
SeqSum(s) == IF s = <<>> THEN 0 ELSE Head(s) + SeqSum(Tail(s))

-----------------------------------------------------------------------------
(* The embedding model and the vector index. *)

\* A query is a sequence of lower-case words.  The distance Chroma reports
\* between a query and a chunk: small when the query names what the chunk
\* is about, large otherwise.
Dist(q, text) == IF \E i \in DOMAIN q : q[i] = text THEN 20 ELSE 120

\* The chunk of set S nearest to q (ties: the one added first).
Nearest(S, q) ==
    CHOOSE c \in S : \A d \in S :
        \/ Dist(q, c.text) < Dist(q, d.text)
        \/ Dist(q, c.text) = Dist(q, d.text) /\ c.id <= d.id

\* vectordb.similarity_search_with_score(q, k): the k nearest chunks of the
\* whole collection with their distances, nearest first.  No filter is
\* passed.
RECURSIVE SimilaritySearch(_, _, _)
SimilaritySearch(S, q, k) ==
    IF S = {} \/ k = 0 THEN <<>>
    ELSE LET c == Nearest(S, q)
         IN  <<[doc |-> c, score |-> Dist(q, c.text)]>>
             \o SimilaritySearch(S \ {c}, q, k - 1)

-----------------------------------------------------------------------------
(* QueryExpander.expand_query *)

SeqsUpTo(S, n) == UNION {[1..m -> S] : m \in 0..n}

\* One line of the language model's answer, stripped: a query, or <<>> for
\* a blank line.
DropBlank(lines) == SelectSeq(lines, LAMBDA l : l # <<>>)

LongQueryThreshold == 10   \* words above which a query counts as long

\* The number of llm.invoke calls of one expand_query call
\* (ENABLE_QUERY_EXPANSION is True).
ExpandCalls(query) == 1

ExpandQueryUncut(query, resp) ==
    IF resp.kind = "raise" THEN <<query>>
    ELSE <<query>> \o DropBlank(resp.lines)

ExpandQueryFailsEmpty(query, resp) ==
    IF resp.kind = "raise" THEN <<>>
    ELSE Take(<<query>> \o DropBlank(resp.lines), EXPANSION_KEYWORDS + 1)

ExpandQuerySkipsLong(query, resp) ==
    IF resp.kind = "raise" \/ Len(query) > LongQueryThreshold THEN <<query>>
    ELSE Take(<<query>> \o DropBlank(resp.lines), EXPANSION_KEYWORDS + 1)

\* resp is the language model's answer: [kind |-> "raise"] when the call
\* fails, else [kind |-> "text", lines |-> the lines of the answer].
ExpandQuery(query, resp) ==
    IF resp.kind = "raise" THEN <<query>>
    ELSE Take(<<query>> \o DropBlank(resp.lines), EXPANSION_KEYWORDS + 1)

-----------------------------------------------------------------------------
(* SearchEngine.search: the merge of the multi-query search *)

KeyIndex(all, key) == {i \in DOMAIN all : all[i].key = key}

\* all_results is a dict: a sequence of entries in insertion order, one
\* per key.  "if key not in all_results or score < all_results[key][1]".
KeepsNewLastWins(old, score) == TRUE
KeepsNew(old, score) == score < old

MergeHit(all, doc, score) ==
    LET key == ChunkKey(doc)
        at == KeyIndex(all, key)
        new == [key |-> key, doc |-> doc, score |-> score]
    IN  IF at = {} THEN Append(all, new)
        ELSE LET i == CHOOSE i \in at : TRUE
             IN  IF KeepsNew(all[i].score, score)
                 THEN [all EXCEPT ![i] = new]
                 ELSE all

RECURSIVE MergeHits(_, _)
MergeHits(all, hits) ==
    IF hits = <<>> THEN all
    ELSE MergeHits(MergeHit(all, Head(hits).doc, Head(hits).score), Tail(hits))

\* The loop over expanded_queries from position i on; the searches at the
\* positions of failedQ raise and are skipped by the except clause.
RECURSIVE MultiQuery(_, _, _, _, _)
MultiQuery(db, expanded, failedQ, i, all) ==
    IF i > Len(expanded) THEN all
    ELSE MultiQuery(db, expanded, failedQ, i + 1,
             IF i \in failedQ THEN all
             ELSE MergeHits(all, SimilaritySearch(db, expanded[i], SEARCH_K_INITIAL)))

\* sorted(all_results.values(), key=lambda x: x[1]): a stable sort.
InsertByScore(sorted, e) ==
    LET before == {i \in DOMAIN sorted : sorted[i].score <= e.score}
        n == Cardinality(before)
    IN  SubSeq(sorted, 1, n) \o <<e>> \o SubSeq(sorted, n + 1, Len(sorted))

RECURSIVE SortByScore(_)
SortByScore(all) ==
    IF all = <<>> THEN <<>>
    ELSE InsertByScore(SortByScore(SubSeq(all, 1, Len(all) - 1)), all[Len(all)])

-----------------------------------------------------------------------------
(* SearchEngine.rerank_results *)

\* The re-ranker's answer after strip().upper(), split at the commas: each
\* token is a digit string (its value), the word NONE, or other text.
\* <<>> is the empty answer.
Digit(n) == [kind |-> "digit", val |-> n]
NoneTok == [kind |-> "none", val |-> 0]
JunkTok == [kind |-> "junk", val |-> 0]

\* [int(x.strip()) for x in response.split(',') if x.strip().isdigit()]
RECURSIVE ParseRanking(_)
ParseRanking(tokens) ==
    IF tokens = <<>> THEN <<>>
    ELSE (IF Head(tokens).kind = "digit" THEN <<Head(tokens).val>> ELSE <<>>)
         \o ParseRanking(Tail(tokens))

\* for idx in ranking: if 0 <= idx < len(results): reranked.append(results[idx])
RECURSIVE PickRanked(_, _)
PickRanked(results, ranking) ==
    IF ranking = <<>> THEN <<>>
    ELSE (IF Head(ranking) < Len(results) THEN <<results[Head(ranking) + 1]>> ELSE <<>>)
         \o PickRanked(results, Tail(ranking))

\* What every failure or ambiguous answer of the re-ranker falls back to.
RerankFallbackEmpty(results) == <<>>
RerankFallback(results) == Take(results, SEARCH_K_RERANK)

RerankResults(results, rr) ==
    IF Len(results) <= SEARCH_K_RERANK THEN results
    ELSE IF rr.kind = "raise" THEN RerankFallback(results)
    ELSE IF rr.tokens = <<>> \/ rr.tokens = <<NoneTok>> THEN RerankFallback(results)
    ELSE LET ranking == ParseRanking(rr.tokens)
             reranked == PickRanked(results, ranking)
         IN  IF ranking = <<>> THEN RerankFallback(results)
             ELSE IF reranked # <<>> THEN Take(reranked, SEARCH_K_RERANK)
             ELSE RerankFallback(results)

\* Step 4 of search: re-rank when more than SEARCH_K_RERANK candidates.
RankStep(sorted, rr) ==
    IF Len(sorted) > SEARCH_K_RERANK THEN RerankResults(sorted, rr)
    ELSE IF Len(sorted) > 0 THEN Take(sorted, SEARCH_K_RERANK)
    ELSE sorted

RelevanceUnclamped(score) == 1000 - 10 * score

\* max(0, 1 - score/100) rounded to three places, in thousandths.
Relevance(score) == IF 1000 - 10 * score > 0 THEN 1000 - 10 * score ELSE 0

\* Step 6 of search.  k = 0 stands for k=None: "k = k or SEARCH_K_RERANK".
EffectiveK(k) == IF k = 0 THEN SEARCH_K_RERANK ELSE k

FormatResults(ranked, k) ==
    [i \in 1..Min2(EffectiveK(k), Len(ranked)) |->
        [doc |-> ranked[i].doc,
         score |-> ranked[i].score,
         relevance |-> Relevance(ranked[i].score)]]

\* search(query, k) as one function of the index and of what the language
\* model answers.  exists: self.vectordb is not None.
Search(db, exists, query, k, expResp, failedQ, rr) ==
    IF ~exists THEN <<>>
    ELSE LET expanded == ExpandQuery(query, expResp)
             all == MultiQuery(db, expanded, failedQ, 1, <<>>)
         IN  FormatResults(RankStep(SortByScore(all), rr), k)

-----------------------------------------------------------------------------
(* DocumentProcessor.chunk_documents and index_chunks *)

\* The metadata chunk_documents stamps on the i-th chunk.  owner is not a
\* field of the program: it records for which tenant the caller ingested
\* the chunk.  org is the organization_id metadata: chunk_documents does
\* not write it.
StampChunk(texts, i, path, owner) ==
    [chunk_index |-> i - 1,
     total_chunks |-> Len(texts),
     source_file |-> path,
     text |-> texts[i],
     owner |-> owner,
     org |-> NoOrg]

ChunkDocuments(texts, path, owner) ==
    [i \in 1..Len(texts) |-> StampChunk(texts, i, path, owner)]

\* for i in range(0, total, BATCH_SIZE): batch_idx = i // BATCH_SIZE
NumBatches(total) == (total + BATCH_SIZE - 1) \div BATCH_SIZE
BatchOf(i) == (i - 1) \div BATCH_SIZE

\* The n smallest ids not in use (Chroma gives every added chunk a new id).
FreshIds(db, n) ==
    LET free == (1..(Cardinality(db) + n)) \ {c.id : c \in db}
    IN  {i \in free : Cardinality({j \in free : j < i}) < n}

\* The k-th smallest element of a set of numbers.
Kth(S, k) == CHOOSE i \in S : Cardinality({j \in S : j < i}) = k - 1

\* "return total"
IndexReturn(total, failed) == total

\* index_chunks(chunks): the batches of failed raise in add_documents and
\* are logged; the others are added.
IndexChunks(db, chunks, failed) ==
    LET ok == {i \in DOMAIN chunks : BatchOf(i) \notin failed}
        ids == FreshIds(db, Cardinality(ok))
        rank(i) == Cardinality({j \in ok : j <= i})
    IN  [added |-> {[id |-> Kth(ids, rank(i))] @@ chunks[i] : i \in ok},
         ret |-> IndexReturn(Len(chunks), failed)]

-----------------------------------------------------------------------------
(* is_greeting_or_smalltalk, on queries already lower-cased and stripped *)

\* query.lower().strip(): a query is a sequence of words as typed, with
\* Space for white space around them.
Space == " "
LowerOf(w) ==
    CASE w = "HI" -> "hi"
      [] w = "Hi" -> "hi"
      [] w = "Thanks" -> "thanks"
      [] w = "THANKS" -> "thanks"
      [] w = "BYE" -> "bye"
      [] w = "Bye" -> "bye"
      [] w = "Leave" -> "leave"
      [] OTHER -> w

RECURSIVE StripLeft(_)
StripLeft(q) == IF q # <<>> /\ Head(q) = Space THEN StripLeft(Tail(q)) ELSE q

RECURSIVE StripRight(_)
StripRight(q) ==
    IF q # <<>> /\ q[Len(q)] = Space THEN StripRight(SubSeq(q, 1, Len(q) - 1)) ELSE q

QueryLowerOnly(q) == [i \in DOMAIN q |-> LowerOf(q[i])]
QueryLower(q) == StripRight(StripLeft([i \in DOMAIN q |-> LowerOf(q[i])]))

StartsWith(q, p) == Len(q) >= Len(p) /\ SubSeq(q, 1, Len(p)) = p

Greetings ==
    {<<w>> : w \in {"hi", "hello", "hey", "hii", "hiii", "hiiii", "howdy",
                    "greetings", "sup", "yo", "hola", "bonjour", "namaste"}}
    \cup {<<"good", w>> : w \in {"morning", "afternoon", "evening", "night"}}
    \cup {<<"whats", "up">>, <<"what's", "up">>}

\* Patterns anchored at both ends match a whole query.
WholePatterns ==
    {<<w>> : w \in {"hi", "hii", "hey", "heyy", "hello", "helloo", "thank",
                    "thanks", "thx", "ok", "okay", "cool", "nice", "yes", "no",
                    "yep", "nope"}}

\* Patterns anchored at the start only match every query that begins so.
PrefixPatterns ==
    {<<"how", "are", "you">>, <<"how", "r", "u">>, <<"how", "do", "you", "do">>,
     <<"what's", "up">>, <<"whats", "up">>, <<"wassup">>,
     <<"thank", "you">>, <<"bye">>, <<"goodbye">>, <<"see", "you">>, <<"later">>}
    \cup {<<"good", w>> : w \in {"morning", "afternoon", "evening", "night"}}

IsGreetingOrSmalltalk(q) ==
    \/ q \in Greetings
    \/ q \in WholePatterns
    \/ \E p \in PrefixPatterns : StartsWith(q, p)

-----------------------------------------------------------------------------
(* The language model's answers, as inputs *)

ExpansionResponses ==
    {[kind |-> "raise", lines |-> <<>>]}
    \cup {[kind |-> "text", lines |-> l] : l \in {<<>>, <<<<"dress">>>>, <<<<"leave">>, <<>>>>}}


-----------------------------------------------------------------------------
(* The entrypoints, Spec: ingestion, deletion and query by tenants *)

Queries == {<<"leave">>, <<"hi">>}

Call(op, tenant, path, outcome, num, results) ==
    [op |-> op, tenant |-> tenant, path |-> path, outcome |-> outcome,
     num |-> num, results |-> results]

NoPath == <<"", "", "">>

FilePaths == DirectPaths \cup {d.file_path : d \in documents}

\* The tenants for whom a file at this path is ingested: an uploaded file
\* lies in its organization's folder.
CallersOf(path) ==
    IF path \in DirectPaths THEN Tenants \cup {NoOrg}
    ELSE {d.organization_id : d \in {e \in documents : e.file_path = path}}

searchVars == <<sq, st, ix, th, acct>>

\* process_document(file_path, file_type) takes two parameters: a call
\* that passes organization_id, by position or by keyword, raises
\* TypeError before the body runs.
ProcessDocumentWithOrg(t, path) ==
    /\ path \in FilePaths
    /\ t \in CallersOf(path)
    /\ last' = Call("process_document", t, path, "TypeError", 0, <<>>)
    /\ UNCHANGED <<vdb, persistDir, documents, processing_status, bgTasks, searchVars>>

\* What process_document(file_path, file_type) returns and adds to the
\* index.  load: what the loader does; texts: the chunks the splitter
\* makes of the pages; failed: the batches whose add_documents raises.
ProcessResultUncaught(db, path, ftype, owner, load, texts, failed) ==
    [success |-> FALSE, num_chunks |-> 0, added |-> {}, opened |-> FALSE,
     message |-> "", raised |-> TRUE]

\* "except Exception" turns what load_document raises (ValueError for an
\* unsupported type, the loader's own error) into a result; raised says
\* whether an exception leaves process_document.
ProcessResult(db, path, ftype, owner, load, texts, failed) ==
    IF ftype \notin SupportedTypes \/ load = "raise"
    THEN [success |-> FALSE, num_chunks |-> 0, added |-> {}, opened |-> FALSE,
          message |-> "Error: ...", raised |-> FALSE]
    ELSE IF load = "empty"
    THEN [success |-> FALSE, num_chunks |-> 0, added |-> {}, opened |-> FALSE,
          message |-> "No content extracted from document", raised |-> FALSE]
    ELSE IF texts = <<>>
    THEN [success |-> TRUE, num_chunks |-> 0, added |-> {}, opened |-> FALSE,
          message |-> "Processed n chunks", raised |-> FALSE]
    ELSE LET r == IndexChunks(db, ChunkDocuments(texts, path, owner), failed)
         IN  [success |-> TRUE, num_chunks |-> r.ret, added |-> r.added, opened |-> TRUE,
              message |-> "Processed n chunks", raised |-> FALSE]

\* The inputs of one call: an unsupported type, a loader that raises or
\* returns no page, or pages that split into texts, with the batches that
\* fail.
ProcessInputs(maxChunks) ==
    {[ftype |-> "exe", load |-> "pages", texts |-> <<>>, failed |-> {}],
     [ftype |-> "txt", load |-> "raise", texts |-> <<>>, failed |-> {}],
     [ftype |-> "txt", load |-> "empty", texts |-> <<>>, failed |-> {}]}
    \cup {[ftype |-> "txt", load |-> "pages", texts |-> x, failed |-> f] :
            x \in SeqsUpTo(Texts, maxChunks), f \in SUBSET {0}}

ProcessDocument(t, path, in) ==
    /\ path \in FilePaths
    /\ t \in CallersOf(path)
    /\ in.failed \subseteq 0..(NumBatches(Len(in.texts)) - 1)
    /\ Cardinality(vdb) + Len(in.texts) <= MaxIndex
    /\ LET r == ProcessResult(vdb, path, in.ftype, t, in.load, in.texts, in.failed)
       IN  /\ vdb' = vdb \cup r.added
           /\ persistDir' = (persistDir \/ r.opened)
           /\ last' = Call("process_document", t, path,
                           IF r.raised THEN "raised"
                           ELSE IF r.success THEN "success" ELSE "failure",
                           r.num_chunks, <<>>)
    /\ UNCHANGED <<documents, processing_status, bgTasks, searchVars>>

\* upload_document: stores the file in the organization's folder, inserts
\* the documents_collection row, sets the status to queued and queues the
\* background task.  A file type outside allowed_extensions is refused
\* with status 400.
FreeDocIds == {d \in DocIds : processing_status[d] = "unknown"}

UploadDocument(t, ftype) ==
    /\ ftype \in SupportedTypes
    /\ FreeDocIds # {}
    /\ Cardinality(documents) < MaxDocs
    /\ LET first == CHOOSE i \in DOMAIN DocIdSeq :
                        /\ DocIdSeq[i] \in FreeDocIds
                        /\ \A j \in 1..(i - 1) : DocIdSeq[j] \notin FreeDocIds
           id == DocIdSeq[first]
           row == [id |-> id, organization_id |-> t, file_path |-> UploadPath(t, id),
                   file_type |-> ftype]
       IN  /\ documents' = documents \cup {row}
           /\ processing_status' = [processing_status EXCEPT ![id] = "queued"]
           /\ bgTasks' = bgTasks \cup {[doc_id |-> id, file_path |-> row.file_path,
                                        file_ext |-> ftype, organization_id |-> t,
                                        started |-> FALSE]}
           /\ last' = Call("upload", t, row.file_path, "200", 0, <<>>)
    /\ UNCHANGED <<vdb, persistDir, searchVars>>

UploadRefused(t, ftype) ==
    /\ ftype \notin SupportedTypes
    /\ last' = Call("upload", t, NoPath, "400", 0, <<>>)
    /\ UNCHANGED <<vdb, persistDir, documents, processing_status, bgTasks, searchVars>>

\* process_document_background, first statement: the status becomes
\* "processing".
BackgroundStart(task) ==
    /\ task \in bgTasks
    /\ ~task.started
    /\ processing_status' = [processing_status EXCEPT ![task.doc_id] = "processing"]
    /\ bgTasks' = (bgTasks \ {task}) \cup {[task EXCEPT !.started = TRUE]}
    /\ UNCHANGED <<vdb, persistDir, documents, last, searchVars>>

\* process_document as a function of three parameters would run
BackgroundCallAccepted(task) ==
    LET r == IndexChunks(vdb, ChunkDocuments(<<"leave">>, task.file_path,
                                             task.organization_id), {})
    IN  [raised |-> FALSE, success |-> TRUE, num_chunks |-> r.ret, added |-> r.added]

\* process_document(file_path, file_ext, organization_id): three
\* positional arguments for two parameters.
BackgroundCall(task) ==
    [raised |-> TRUE, success |-> FALSE, num_chunks |-> 0, added |-> {}]

\* process_document_background, the rest: the call, then the status from
\* its result; an exception is caught and gives "failed".
BackgroundRun(task) ==
    /\ task \in bgTasks
    /\ task.started
    /\ LET r == BackgroundCall(task)
       IN  /\ processing_status' =
                  [processing_status EXCEPT ![task.doc_id] =
                      IF ~r.raised /\ r.success THEN "completed" ELSE "failed"]
           /\ vdb' = vdb \cup r.added
           /\ persistDir' = (persistDir \/ r.added # {})
    /\ bgTasks' = bgTasks \ {task}
    /\ UNCHANGED <<documents, last, searchVars>>

\* vectordb.delete(where={...}) with one condition: every chunk whose
\* metadata matches goes.
MatchesSource(c, path) == c.source_file = path

\* rag_utils.delete_document(file_path)
DeletedByPath(db, path) == {c \in db : MatchesSource(c, path)}

DeleteDocument(t, path, raises) ==
    /\ path \in FilePaths
    /\ t \in CallersOf(path) \ {NoOrg}
    /\ IF persistDir /\ ~raises
       THEN /\ vdb' = vdb \ DeletedByPath(vdb, path)
            /\ last' = Call("delete_document", t, path, "True", 0, <<>>)
       ELSE /\ vdb' = vdb
            /\ last' = Call("delete_document", t, path, "False", 0, <<>>)
    /\ UNCHANGED <<persistDir, documents, processing_status, bgTasks, searchVars>>

\* delete_document(file_path) takes one parameter: a call that passes
\* organization_id raises TypeError.
DeleteDocumentWithOrg(t, path) ==
    /\ path \in FilePaths
    /\ t \in CallersOf(path) \ {NoOrg}
    /\ last' = Call("delete_document", t, path, "TypeError", 0, <<>>)
    /\ UNCHANGED <<vdb, persistDir, documents, processing_status, bgTasks, searchVars>>

\* vectordb.delete(where={"source_file": ..., "organization_id": ...}): a
\* where clause with two keys.  Chroma either reads it as a conjunction or
\* refuses it with ValueError, by its version; the endpoint catches the
\* error and goes on.
WhereModes == {"and", "reject"}

DeletedByPathAndOrg(db, path, org, mode) ==
    IF mode = "reject" THEN {}
    ELSE {c \in db : c.source_file = path /\ c.org = org}

\* DELETE /documents/{doc_id}
DeleteEndpoint(t, id, mode) ==
    /\ \E doc \in documents :
        /\ doc.id = id /\ doc.organization_id = t
        /\ vdb' = IF persistDir
                  THEN vdb \ DeletedByPathAndOrg(vdb, doc.file_path, t, mode)
                  ELSE vdb
        /\ documents' = documents \ {doc}
        /\ last' = Call("delete_endpoint", t, doc.file_path, "200", 0, <<>>)
    /\ UNCHANGED <<persistDir, processing_status, bgTasks, searchVars>>

DeleteEndpointNotFound(t, id) ==
    /\ ~\E doc \in documents : doc.id = id /\ doc.organization_id = t
    /\ last' = Call("delete_endpoint", t, NoPath, "404", 0, <<>>)
    /\ UNCHANGED <<vdb, persistDir, documents, processing_status, bgTasks, searchVars>>

\* get_answer_with_fallback(query, conversation_history, stream), run to
\* its end: the source tag and the evidence the answer is built from.
\* llm: what the language model does when asked for the answer.
Answer(db, exists, q, expResp, failedQ, rr, llm) ==
    IF IsGreetingOrSmalltalk(QueryLower(q))
    THEN [source |-> "greeting", results |-> <<>>]
    ELSE IF ~exists THEN [source |-> "no_documents", results |-> <<>>]
    ELSE LET res == Search(db, TRUE, q, 0, expResp, failedQ, rr)
         IN  IF res = <<>> THEN [source |-> "no_documents", results |-> <<>>]
             ELSE IF llm = "raise" THEN [source |-> "error", results |-> res]
             ELSE [source |-> "documents", results |-> res]

GetAnswer(t, q, expResp, failedQ, rr, llm) ==
    /\ LET a == Answer(vdb, persistDir, q, expResp, failedQ, rr, llm)
       IN  last' = Call("get_answer", t, NoPath, a.source, Len(a.results), a.results)
    /\ UNCHANGED <<vdb, persistDir, documents, processing_status, bgTasks, searchVars>>

\* get_answer_with_fallback(..., organization_id=...): no such parameter.
GetAnswerWithOrg(t, q) ==
    /\ last' = Call("get_answer", t, NoPath, "TypeError", 0, <<>>)
    /\ UNCHANGED <<vdb, persistDir, documents, processing_status, bgTasks, searchVars>>

\* POST /chat: passes organization_id to process_document (when a file
\* comes with the request) and to get_answer_with_fallback; the TypeError
\* becomes status 500, or an error event of the stream.
ChatOutcome(hasFile, hasQuery, stream) ==
    IF hasFile THEN "500"
    ELSE IF ~hasQuery THEN "200"
    ELSE IF stream THEN "error_event" ELSE "500"

Chat(t, hasFile, hasQuery, stream) ==
    /\ last' = Call("chat", t, NoPath, ChatOutcome(hasFile, hasQuery, stream), 0, <<>>)
    /\ UNCHANGED <<vdb, persistDir, documents, processing_status, bgTasks, searchVars>>

-----------------------------------------------------------------------------
(* The runs of search, of the answer stream and of index_chunks, idle *)

SqIdle == [pc |-> "idle"]
StIdle == [pc |-> "idle"]
IxIdle == [pc |-> "idle"]

ThIdle == [pc |-> "idle"]

AcctIdle == [pc |-> "idle"]

MainIdle ==
    /\ vdb = {}
    /\ persistDir = FALSE
    /\ documents = {}
    /\ processing_status = [d \in DocIds |-> "unknown"]
    /\ bgTasks = {}
    /\ last = Call("none", NoOrg, NoPath, "", 0, <<>>)

Init ==
    /\ MainIdle
    /\ sq = SqIdle
    /\ st = StIdle
    /\ ix = IxIdle
    /\ th = ThIdle
    /\ acct = AcctIdle

MainExpansions == {[kind |-> "raise", lines |-> <<>>], [kind |-> "text", lines |-> <<<<"dress">>>>]}
MainReranks == {[kind |-> "text", tokens |-> <<NoneTok>>]}

Next ==
    \/ \E t \in Tenants \cup {NoOrg}, path \in FilePaths, in \in ProcessInputs(MaxDocChunks) :
            ProcessDocument(t, path, in)
    \/ \E t \in Tenants \cup {NoOrg}, path \in FilePaths : ProcessDocumentWithOrg(t, path)
    \/ \E t \in Tenants, ftype \in FileTypes : UploadDocument(t, ftype)
    \/ \E t \in Tenants, ftype \in FileTypes : UploadRefused(t, ftype)
    \/ \E t \in Tenants, path \in FilePaths, raises \in BOOLEAN : DeleteDocument(t, path, raises)
    \/ \E t \in Tenants, path \in FilePaths : DeleteDocumentWithOrg(t, path)
    \/ \E t \in Tenants, id \in DocIds, mode \in WhereModes : DeleteEndpoint(t, id, mode)
    \/ \E t \in Tenants, id \in DocIds : DeleteEndpointNotFound(t, id)
    \/ \E t \in Tenants \cup {NoOrg}, q \in Queries, e \in MainExpansions,
          failedQ \in {{}, {1}}, rr \in MainReranks, llm \in {"ok", "raise"} :
            GetAnswer(t, q, e, failedQ, rr, llm)
    \/ \E t \in Tenants \cup {NoOrg}, q \in Queries : GetAnswerWithOrg(t, q)
    \/ \E t \in Tenants \cup {NoOrg}, hasFile \in BOOLEAN, stream \in BOOLEAN :
            Chat(t, hasFile, TRUE, stream)

Spec == Init /\ [][Next]_vars

-----------------------------------------------------------------------------
(* Tenant isolation, deletion and the tenant parameter (Spec) *)

CitesOnlyOwn(call) ==
    \A i \in DOMAIN call.results :
        call.results[i].doc.owner \notin Tenants \ {call.tenant}

\* C1: a query made for tenant A never returns or cites a chunk that was
\* ingested for another tenant.
C1_QueryStaysInTenant ==
    (last.op = "get_answer" /\ last.tenant \in Tenants) => CitesOnlyOwn(last)

\* The chunks of (tenant, source) a query can still retrieve.
Retrievable(t, path) ==
    {c \in vdb : c.owner = t /\ c.source_file = path
                 /\ \E q \in Queries :
                      \E i \in DOMAIN SimilaritySearch(vdb, q, SEARCH_K_INITIAL) :
                          SimilaritySearch(vdb, q, SEARCH_K_INITIAL)[i].doc = c}

\* A deletion that did not report a failure of the index: delete_document
\* gave True, or was called with the tenant and raised TypeError, or the
\* endpoint answered 200.
DeleteAsked(call) ==
    \/ call.op = "delete_document" /\ call.outcome \in {"True", "TypeError"}
    \/ call.op = "delete_endpoint" /\ call.outcome = "200"

\* C2: after a document of tenant T is deleted, by delete_document with
\* the source and the tenant or by the delete endpoint, no chunk of that
\* (tenant, source) is retrievable.
C2_DeletedIsGone ==
    DeleteAsked(last) => Retrievable(last.tenant, last.path) = {}

\* C3: a deletion removes only chunks whose source document and tenant
\* both match: it removes no chunk of another tenant and no chunk of
\* another document.
C3_DeleteRemovesOnlyMatching ==
    [][last'.op \in {"delete_document", "delete_endpoint"} =>
        \A c \in vdb \ vdb' :
            /\ c.source_file = last'.path
            /\ c.owner \notin Tenants \ {last'.tenant}]_vars

\* C4: a call without a tenant identifier fails closed: it indexes no
\* chunk without a tenant and it returns no evidence.
C4_NoTenantFailsClosed ==
    /\ \A c \in vdb : c.owner # NoOrg
    /\ (last.op = "get_answer" /\ last.tenant = NoOrg) => last.results = <<>>

-----------------------------------------------------------------------------
(* SearchEngine.search, step by step (SearchSpec) *)

MaxSearchChunks == 6   \* chunks of the index a search runs on
MaxExpLines == 4       \* lines of the language model's expansion answer

\* An index of n chunks of one document, about the texts of tx.
SearchIndex(tx) ==
    {[id |-> i, chunk_index |-> i - 1, total_chunks |-> Len(tx),
      source_file |-> <<"tmp", "-", "a.txt">>, text |-> tx[i],
      owner |-> "org_1", org |-> NoOrg] : i \in DOMAIN tx}

SearchQueries == {<<"leave">>, <<"dress">>}
SearchKs == {0, 2}

SearchExpansions ==
    {[kind |-> "raise", lines |-> <<>>]}
    \cup {[kind |-> "text", lines |-> l] :
            l \in SeqsUpTo({<<"leave">>, <<"dress">>, <<>>}, MaxExpLines)}

SearchReranks ==
    {[kind |-> "raise", tokens |-> <<>>]}
    \cup {[kind |-> "text", tokens |-> t] :
            t \in {<<>>, <<NoneTok>>, <<JunkTok>>, <<Digit(9), Digit(12)>>,
                   <<Digit(1), Digit(0)>>, <<Digit(1), Digit(1), Digit(2)>>,
                   <<JunkTok, Digit(3), Digit(9)>>}}

SearchInit ==
    /\ \E tx \in SeqsUpTo(Texts, MaxSearchChunks) : vdb = SearchIndex(tx)
    /\ persistDir \in BOOLEAN
    /\ ~persistDir => vdb = {}
    /\ documents = {}
    /\ processing_status = [d \in DocIds |-> "unknown"]
    /\ bgTasks = {}
    /\ last = Call("none", NoOrg, NoPath, "", 0, <<>>)
    /\ sq = SqIdle
    /\ st = StIdle
    /\ ix = IxIdle
    /\ th = ThIdle
    /\ acct = AcctIdle

\* search(query, k) up to the loop: "if not self.vectordb: return []",
\* then the expansion of the query.
SqStart(q, k, e) ==
    /\ sq.pc = "idle"
    /\ sq' = [pc |-> IF persistDir THEN "query" ELSE "done",
              query |-> q, k |-> k,
              expanded |-> IF persistDir THEN ExpandQuery(q, e) ELSE <<>>,
              pos |-> 1, all |-> <<>>, seen |-> {}, merged |-> <<>>,
              rr |-> [kind |-> "raise", tokens |-> <<>>], results |-> <<>>]
    /\ UNCHANGED <<mainVars, st, ix, th, acct>>

\* One turn of "for q in expanded_queries": the similarity search, which
\* may raise, and the merge of its hits into all_results.  seen keeps
\* every (key, score) a search returned.
SqQuery(raises) ==
    /\ sq.pc = "query"
    /\ sq.pos <= Len(sq.expanded)
    /\ LET hits == IF raises THEN <<>>
                   ELSE SimilaritySearch(vdb, sq.expanded[sq.pos], SEARCH_K_INITIAL)
       IN  sq' = [sq EXCEPT !.pos = @ + 1,
                            !.all = MergeHits(@, hits),
                            !.seen = @ \cup {[key |-> ChunkKey(hits[i].doc),
                                              score |-> hits[i].score] : i \in DOMAIN hits}]
    /\ UNCHANGED <<mainVars, st, ix, th, acct>>

\* Steps 3 to 6: sort, re-rank, cut to k, format.
SqRank(rr) ==
    /\ sq.pc = "query"
    /\ sq.pos > Len(sq.expanded)
    /\ LET sorted == SortByScore(sq.all)
       IN  sq' = [sq EXCEPT !.pc = "done", !.merged = sorted, !.rr = rr,
                            !.results = FormatResults(RankStep(sorted, rr), sq.k)]
    /\ UNCHANGED <<mainVars, st, ix, th, acct>>

SearchNext ==
    \/ \E q \in SearchQueries, k \in SearchKs, e \in SearchExpansions : SqStart(q, k, e)
    \/ \E raises \in BOOLEAN : SqQuery(raises)
    \/ \E rr \in SearchReranks : SqRank(rr)

SearchSpec == SearchInit /\ [][SearchNext]_vars

SeenKeys == {x.key : x \in sq.seen}
BestSeen(key) ==
    CHOOSE s \in {x.score : x \in {y \in sq.seen : y.key = key}} :
        \A x \in sq.seen : x.key = key => s <= x.score

HoldsOnceWithBest(entries) ==
    /\ {entries[i].key : i \in DOMAIN entries} = SeenKeys
    /\ \A key \in SeenKeys :
        /\ Cardinality(KeyIndex(entries, key)) = 1
        /\ \A i \in KeyIndex(entries, key) : entries[i].score = BestSeen(key)

\* C5: a chunk returned under several expanded queries is in the merged
\* candidates exactly once, with the lowest of its distances, in whatever
\* order the queries were processed.
C5_MergeKeepsBest ==
    /\ sq.pc = "query" => HoldsOnceWithBest(sq.all)
    /\ (sq.pc = "done" /\ persistDir) => HoldsOnceWithBest(sq.merged)

\* A finished search in which a chunk came first with its worse distance
\* and later with a better one, and one in which the better came first.
C5_Witness ==
    /\ sq.pc = "done"
    /\ \E i \in DOMAIN sq.merged :
        /\ [key |-> sq.merged[i].key, score |-> 120] \in sq.seen
        /\ sq.merged[i].score = 20
        /\ Dist(sq.query, sq.merged[i].doc.text) = 120

\* The answers of the re-ranker that rank nothing: it raised, it answered
\* nothing, NONE, no number, or only numbers out of range.
RanksNothing(rr, n) ==
    \/ rr.kind = "raise"
    \/ rr.tokens = <<>>
    \/ rr.tokens = <<NoneTok>>
    \/ \A i \in DOMAIN rr.tokens :
        rr.tokens[i].kind = "digit" => rr.tokens[i].val >= n

\* C6: when candidates exist and the re-ranker ranks nothing, search
\* returns the first min(k, SEARCH_K_RERANK) candidates by ascending
\* distance, and so at least one.
C6_RerankFallsBack ==
    (sq.pc = "done" /\ sq.merged # <<>> /\ RanksNothing(sq.rr, Len(sq.merged))) =>
        /\ sq.results # <<>>
        /\ Len(sq.results) = Min2(Min2(EffectiveK(sq.k), SEARCH_K_RERANK), Len(sq.merged))
        /\ \A i \in DOMAIN sq.results :
            /\ sq.results[i].doc = sq.merged[i].doc
            /\ sq.results[i].score = sq.merged[i].score
        /\ \A i, j \in DOMAIN sq.results : i < j => sq.results[i].score <= sq.results[j].score
        /\ \A i \in DOMAIN sq.results : \A j \in DOMAIN sq.merged :
            j > Len(sq.results) => sq.results[i].score <= sq.merged[j].score

\* More candidates than SEARCH_K_RERANK, the re-ranker answers NONE, and
\* the search returns evidence.
C6_Witness ==
    /\ sq.pc = "done"
    /\ Len(sq.merged) > SEARCH_K_RERANK
    /\ sq.rr = [kind |-> "text", tokens |-> <<NoneTok>>]
    /\ Len(sq.results) = SEARCH_K_RERANK
    /\ \E i, j \in DOMAIN sq.merged : sq.merged[i].score # sq.merged[j].score

-----------------------------------------------------------------------------
(* get_answer_with_fallback as the generator it is (StreamSpec) *)

MaxStreamChunks == 2   \* chunks of the index an answer run searches
MaxAnswer == 3         \* words of the language model's answer

\* A text is a sequence of tokens; + on strings is \o on them.
Word(w) == [kind |-> "word", w |-> w, n |-> 0, p |-> 0]

\* The reply of is_greeting_or_smalltalk to a query it recognises.
Contains(q, p) == \E i \in 0..(Len(q) - Len(p)) : SubSeq(q, i + 1, i + Len(p)) = p
HasWord(q, W) == \E i \in DOMAIN q : q[i] \in W

SmalltalkResponse(q) ==
    IF q \in Greetings THEN <<Word("Hello")>>
    ELSE IF Contains(q, <<"how", "are", "you">>) \/ Contains(q, <<"how", "r", "u">>)
    THEN <<Word("I'm doing great")>>
    ELSE IF HasWord(q, {"thank", "thanks", "thx"}) THEN <<Word("You're welcome")>>
    ELSE IF HasWord(q, {"bye", "goodbye"}) \/ Contains(q, <<"see", "you">>)
    THEN <<Word("Goodbye")>>
    ELSE <<Word("Hello")>>

NoDocsMsg == <<Word("No documents uploaded yet")>>
NoResultsMsg == <<Word("I couldn't find relevant information")>>
ErrorMsg == <<Word("Error")>>

\* format_citations: nothing for no citation; else the heading and one
\* entry for each citation, with its number and relevance in percent.
RelevancePercent(r) == IF r.relevance > 0 THEN r.relevance \div 10 ELSE 100

FormatCitations(results) ==
    IF results = <<>> THEN <<>>
    ELSE <<Word("Sources")>> \o
         [i \in DOMAIN results |->
            [kind |-> "cite", w |-> results[i].doc.text, n |-> i,
             p |-> RelevancePercent(results[i])]]

\* The events of the stream.
Event(text, source, done) == [text |-> text, source |-> source, done |-> done]
TerminalEvent == Event(<<>>, "documents", TRUE)
ErrorEventNotDone == Event(ErrorMsg, "error", FALSE)
ErrorEvent == Event(ErrorMsg, "error", TRUE)

\* _generate_response: llm.invoke(prompt) + citation_text, "documents"
GenerateResponseNoCitations(answer, results) == [text |-> answer, source |-> "documents"]
GenerateResponse(answer, results) ==
    [text |-> answer \o FormatCitations(results), source |-> "documents"]

\* The texts of the events joined, as a consumer of the stream joins them.
RECURSIVE Concat(_)
Concat(events) ==
    IF events = <<>> THEN <<>>
    ELSE events[1].text \o Concat(Tail(events))

NotDone(events) == SelectSeq(events, LAMBDA ev : ~ev.done)

\* Every turn of "for q in expanded_queries" ended in its except clause.
AllSearchesRaise(expanded, failedQ) == \A i \in DOMAIN expanded : i \in failedQ

\* get_answer_with_fallback up to the answer: the short circuits (greeting,
\* no index directory, no result), an exception on the way (fault: the
\* construction of the engine or of the generator raises), or the evidence.
Prelude(db, exists, q, expResp, failedQ, rr, fault) ==
    IF IsGreetingOrSmalltalk(QueryLower(q))
    THEN [path |-> "greeting", text |-> SmalltalkResponse(QueryLower(q)),
          source |-> "greeting", results |-> <<>>, calls |-> {}, allRaised |-> FALSE]
    ELSE IF ~exists
    THEN [path |-> "no_directory", text |-> NoDocsMsg, source |-> "no_documents",
          results |-> <<>>, calls |-> {}, allRaised |-> FALSE]
    ELSE IF fault
    THEN [path |-> "error", text |-> ErrorMsg, source |-> "error", results |-> <<>>,
          calls |-> {}, allRaised |-> FALSE]
    ELSE LET res == Search(db, TRUE, q, 0, expResp, failedQ, rr)
             all == AllSearchesRaise(ExpandQuery(q, expResp), failedQ)
         IN  IF res = <<>>
             THEN [path |-> "no_results", text |-> NoResultsMsg,
                   source |-> "no_documents", results |-> <<>>,
                   calls |-> {"expand", "search"}, allRaised |-> all]
             ELSE [path |-> "documents", text |-> <<>>, source |-> "documents",
                   results |-> res, calls |-> {"expand", "search"}, allRaised |-> all]

\* The body holds yield statements, so a call returns a generator object
\* in both modes and runs nothing of the body.
CallReturns(stream) == "generator"

NoReturn == [kind |-> "none", text |-> <<>>, source |-> ""]
Pair(text, source) == [kind |-> "pair", text |-> text, source |-> source]

StreamQueries ==
    {<<"leave">>, <<"pay">>, <<"hi">>, <<"thank", "you", "all">>,
     <<Space, "HI", Space>>, <<"Thanks">>, <<"BYE", Space>>}
StreamAnswers == SeqsUpTo({Word("a"), Word("b")}, MaxAnswer)

\* What llm.stream does at one turn of "for chunk in self.llm.stream":
\* it gives the next n words, it ends, or it raises.
LlmSteps(rest) ==
    {[kind |-> "raise", n |-> 0]}
    \cup (IF rest = <<>> THEN {[kind |-> "end", n |-> 0]}
          ELSE {[kind |-> "frag", n |-> n] : n \in 1..Len(rest)})

AllLlmSteps == UNION {LlmSteps(a) : a \in StreamAnswers}

\* _stream_response resumed inside the loop over llm.stream, up to its
\* next yield; an exception leaves through "except Exception" of
\* get_answer_with_fallback, which yields the error event.
StreamResume(g, llm) ==
    IF llm.kind = "raise"
    THEN [g EXCEPT !.pc = "after_done", !.err = TRUE, !.events = Append(@, ErrorEvent)]
    ELSE IF llm.kind = "frag"
    THEN [g EXCEPT !.pc = "in_llm", !.rest = SubSeq(@, llm.n + 1, Len(@)),
                   !.events = Append(@, Event(Take(g.rest, llm.n), "documents", FALSE))]
    ELSE IF FormatCitations(g.results) # <<>>
    THEN [g EXCEPT !.pc = "after_cite",
                   !.events = Append(@, Event(FormatCitations(g.results), "documents", FALSE))]
    ELSE [g EXCEPT !.pc = "after_done", !.events = Append(@, TerminalEvent)]

\* The call: get_answer_with_fallback(query, history, stream)
StCall(q, stream) ==
    /\ st.pc = "idle"
    /\ st' = [pc |-> "created", stream |-> stream, query |-> q, answer |-> <<>>,
              rest |-> <<>>, results |-> <<>>, events |-> <<>>, ret |-> NoReturn,
              returned |-> CallReturns(stream), caller |-> "holds",
              path |-> "none", err |-> FALSE, calls |-> {}, allRaised |-> FALSE]
    /\ UNCHANGED <<mainVars, sq, ix, th, acct>>

\* The first next() of a streaming run: the body from its top to its
\* first yield.
StBegin(expResp, failedQ, rr, fault, answer, llm) ==
    /\ st.pc = "created" /\ st.stream
    /\ LET pre == Prelude(vdb, persistDir, st.query, expResp, failedQ, rr, fault)
           g == [st EXCEPT !.path = pre.path, !.results = pre.results,
                           !.allRaised = pre.allRaised,
                           !.calls = IF pre.path = "documents"
                                     THEN pre.calls \cup {"llm"} ELSE pre.calls]
       IN  IF pre.path # "documents"
           THEN /\ answer = <<>> /\ llm.kind = "raise"
                /\ st' = [g EXCEPT !.pc = "after_done", !.err = (pre.path = "error"),
                                   !.events = <<Event(pre.text, pre.source, TRUE)>>]
           ELSE /\ llm \in LlmSteps(answer)
                /\ st' = StreamResume([g EXCEPT !.answer = answer, !.rest = answer], llm)
    /\ UNCHANGED <<mainVars, sq, ix, th, acct>>

\* A later next(), by where the generator is suspended.
StFragment(llm) ==
    /\ st.pc = "in_llm"
    /\ llm \in LlmSteps(st.rest)
    /\ st' = StreamResume(st, llm)
    /\ UNCHANGED <<mainVars, sq, ix, th, acct>>

StTerminal ==
    /\ st.pc = "after_cite"
    /\ st' = [st EXCEPT !.pc = "after_done", !.events = Append(@, TerminalEvent)]
    /\ UNCHANGED <<mainVars, sq, ix, th, acct>>

StExhaust ==
    /\ st.pc = "after_done"
    /\ st' = [st EXCEPT !.pc = "finished", !.caller = "consumed"]
    /\ UNCHANGED <<mainVars, sq, ix, th, acct>>

\* The consumer stops early: the generator is closed where it is
\* suspended, and yields nothing more.
StClose ==
    /\ st.pc \in {"in_llm", "after_cite"}
    /\ st' = [st EXCEPT !.pc = "closed", !.caller = "stopped"]
    /\ UNCHANGED <<mainVars, sq, ix, th, acct>>

\* The caller of a non-streaming run, "answer, source = ..." (how =
\* "unpack") or next(...): the body runs from its top to its return, the
\* pair leaves as the value of StopIteration, and the unpacking finds no
\* value.
StUnpack(expResp, failedQ, rr, fault, answer, llmRaises, how) ==
    /\ st.pc = "created" /\ ~st.stream
    /\ LET pre == Prelude(vdb, persistDir, st.query, expResp, failedQ, rr, fault)
           gen == GenerateResponse(answer, pre.results)
       IN  /\ pre.path # "documents" => (answer = <<>> /\ ~llmRaises)
           /\ st' = [st EXCEPT
                  !.pc = "finished", !.path = pre.path, !.results = pre.results,
                  !.answer = answer, !.allRaised = pre.allRaised,
                  !.calls = IF pre.path = "documents"
                            THEN pre.calls \cup {"llm"} ELSE pre.calls,
                  !.err = (pre.path = "error" \/ (pre.path = "documents" /\ llmRaises)),
                  !.ret = IF pre.path # "documents" THEN Pair(pre.text, pre.source)
                          ELSE IF llmRaises THEN Pair(ErrorMsg, "error")
                          ELSE Pair(gen.text, gen.source),
                  !.caller = IF how = "unpack" THEN "ValueError" ELSE "StopIteration"]
    /\ UNCHANGED <<mainVars, sq, ix, th, acct>>

StreamInit ==
    /\ \E tx \in SeqsUpTo(Texts, MaxStreamChunks) : vdb = SearchIndex(tx)
    /\ persistDir \in BOOLEAN
    /\ ~persistDir => vdb = {}
    /\ documents = {}
    /\ processing_status = [d \in DocIds |-> "unknown"]
    /\ bgTasks = {}
    /\ last = Call("none", NoOrg, NoPath, "", 0, <<>>)
    /\ sq = SqIdle
    /\ st = StIdle
    /\ ix = IxIdle
    /\ th = ThIdle
    /\ acct = AcctIdle

StreamNext ==
    \/ \E q \in StreamQueries, stream \in BOOLEAN : StCall(q, stream)
    \/ \E e \in ExpansionResponses, failedQ \in {{}, {1}}, rr \in MainReranks,
          fault \in BOOLEAN, answer \in StreamAnswers :
            \E llm \in LlmSteps(answer) : StBegin(e, failedQ, rr, fault, answer, llm)
    \/ \E llm \in AllLlmSteps : StFragment(llm)
    \/ StTerminal
    \/ StExhaust
    \/ StClose
    \/ \E e \in ExpansionResponses, failedQ \in {{}, {1}}, rr \in MainReranks,
          fault \in BOOLEAN, answer \in StreamAnswers, llmRaises \in BOOLEAN,
          how \in {"unpack", "next"} :
            StUnpack(e, failedQ, rr, fault, answer, llmRaises, how)

StreamSpec == StreamInit /\ [][StreamNext]_vars

FinishedStream == st.pc = "finished" /\ st.stream

\* The events of a run that generated its answer to the end: the
\* fragments, which join to the model's answer, the citation block, the
\* terminal event.
FullAnswerShape(events, answer, results) ==
    LET n == Len(events)
    IN  /\ n >= 2
        /\ events[n] = TerminalEvent
        /\ events[n - 1] = Event(FormatCitations(results), "documents", FALSE)
        /\ FormatCitations(results) # <<>>
        /\ \A i \in 1..(n - 2) : events[i].source = "documents" /\ ~events[i].done
        /\ Concat(SubSeq(events, 1, n - 2)) = answer

\* The events of a run whose model raised: the fragments so far, then the
\* error event, which is terminal; no citation block.
FailedAnswerShape(events, answer, results) ==
    LET n == Len(events)
        sofar == Concat(SubSeq(events, 1, n - 1))
    IN  /\ n >= 1
        /\ events[n] = ErrorEvent
        /\ \A i \in 1..(n - 1) :
            /\ events[i].source = "documents" /\ ~events[i].done
            /\ events[i].text # FormatCitations(results)
        /\ Len(sofar) <= Len(answer) /\ sofar = Take(answer, Len(sofar))

\* C7 (as amended): in streaming mode no event before the last one has
\* done = true, at any moment; a run consumed to its end ends with exactly
\* one event with done = true, also when an error occurs mid-stream.  A
\* run that generates its answer without error emits the fragments, then
\* the citation block as one fragment, then the terminal event; a run
\* whose model raises emits the fragments so far and then the terminal
\* error event, without a citation block; a greeting, no-document,
\* no-result or early-error run emits the terminal event alone.
C7_StreamEndsOnce ==
    (st.pc # "idle" /\ st.stream) =>
        /\ \A i \in 1..(Len(st.events) - 1) : ~st.events[i].done
        /\ (st.pc \in {"after_done", "finished"}) =>
              (st.events # <<>> /\ st.events[Len(st.events)].done)
        /\ (st.pc \in {"in_llm", "after_cite", "closed"}) =>
              \A i \in DOMAIN st.events : ~st.events[i].done
        /\ FinishedStream =>
            /\ (st.path = "documents" /\ ~st.err) =>
                    FullAnswerShape(st.events, st.answer, st.results)
            /\ (st.path = "documents" /\ st.err) =>
                    FailedAnswerShape(st.events, st.answer, st.results)
            /\ st.path # "documents" => Len(st.events) = 1

\* A streaming run consumed to its end that gave two fragments or more,
\* the citation block and the terminal event.
C7_Witness ==
    /\ FinishedStream
    /\ st.path = "documents" /\ ~st.err
    /\ Len(st.events) >= 4
    /\ st.caller = "consumed"

\* C7 (as stated): every streaming run that generates an answer and is
\* consumed to its end emits the fragments, then the citation block, then
\* exactly one terminal event, also when an error occurs mid-stream.
C7_AlwaysFragmentsCitationTerminal ==
    (FinishedStream /\ st.path = "documents") =>
        LET n == Len(st.events)
        IN  /\ n >= 2
            /\ st.events[n].done
            /\ \A i \in 1..(n - 1) : ~st.events[i].done
            /\ st.events[n - 1] = Event(FormatCitations(st.results), "documents", FALSE)

\* C8: for a fixed query, evidence and answer of the model, the fragments
\* of the streaming mode (the terminal event left out) join to the text
\* the non-streaming mode returns, with the same source tag.
C8_StreamEqualsNonStream ==
    (st.pc = "finished" /\ st.path = "documents" /\ ~st.err) =>
        LET whole == GenerateResponse(st.answer, st.results)
        IN  IF st.stream
            THEN /\ Concat(NotDone(st.events)) = whole.text
                 /\ \A i \in DOMAIN st.events : st.events[i].source = whole.source
            ELSE /\ st.ret.text = st.answer \o FormatCitations(st.results)
                 /\ st.ret.source = "documents"

\* A streaming run over evidence, whose answer came in two fragments or
\* more and with a citation block.
C8_Witness ==
    /\ FinishedStream
    /\ st.path = "documents" /\ ~st.err
    /\ Len(st.answer) >= 2
    /\ Len(NotDone(st.events)) >= 3
    /\ Concat(NotDone(st.events)) # st.answer

\* C9: called with stream = false, get_answer_with_fallback returns the
\* pair (answer, source) from the call itself, on every path, and the
\* caller's "answer, source = ..." unpacks it.
C9_NonStreamReturnsPair ==
    (st.pc # "idle" /\ ~st.stream) =>
        /\ st.returned = "pair"
        /\ st.caller \notin {"ValueError", "StopIteration"}

-----------------------------------------------------------------------------
(* process_document and the batches of index_chunks (IndexSpec) *)

MaxIxBatches == 3      \* batches of the largest document indexed

\* Documents of no chunk, of one, and of whole batches with and without a
\* chunk more.
IxTotals ==
    {0, 1} \cup {b * BATCH_SIZE + d : b \in 1..(MaxIxBatches - 1), d \in {0, 1}}

IxTexts(total) == [i \in 1..total |-> "leave"]

\* batch_idx and chunks[i:i + BATCH_SIZE]
BatchIndexes(total) == 0..(NumBatches(total) - 1)
BatchChunks(total, b) == {i \in 1..total : BatchOf(i) = b}

\* index_batch: vectordb.add_documents(batch) adds the whole batch and
\* gives True, or raises, and the batch gives False.
IndexBatch(chunks, b, base, raises) ==
    IF raises THEN {}
    ELSE {[id |-> base + i] @@ chunks[i] : i \in BatchChunks(Len(chunks), b)}

\* process_document(file_path, "txt") up to the batches of index_chunks:
\* the document is loaded and cut into total chunks; "if not chunks:
\* return 0", else the index is opened and the batches are made.
IxStart(t, total) ==
    /\ ix.pc = "idle"
    /\ IF total = 0
       THEN /\ ix' = [pc |-> "done", tenant |-> t, total |-> 0, pending |-> {},
                      ok |-> {}, failed |-> {}, ret |-> 0]
            /\ last' = Call("process_document", t, <<"tmp", "-", "a.txt">>,
                            "success", 0, <<>>)
            /\ persistDir' = persistDir
       ELSE /\ ix' = [pc |-> "batches", tenant |-> t, total |-> total,
                      pending |-> BatchIndexes(total), ok |-> {}, failed |-> {},
                      ret |-> 0]
            /\ last' = last
            /\ persistDir' = TRUE
    /\ UNCHANGED <<vdb, documents, processing_status, bgTasks, sq, st, th, acct>>

\* One batch, run by a worker of the pool; the batches end in any order.
IxBatch(b, raises) ==
    /\ ix.pc = "batches"
    /\ b \in ix.pending
    /\ LET chunks == ChunkDocuments(IxTexts(ix.total), <<"tmp", "-", "a.txt">>, ix.tenant)
       IN  vdb' = vdb \cup IndexBatch(chunks, b, 0, raises)
    /\ ix' = [ix EXCEPT !.pending = @ \ {b},
                        !.ok = IF raises THEN @ ELSE @ \cup {b},
                        !.failed = IF raises THEN @ \cup {b} ELSE @]
    /\ UNCHANGED <<persistDir, documents, processing_status, bgTasks, last, sq, st, th, acct>>

\* All batches ended: index_chunks returns, and process_document reports
\* the number it got.
IxFinish ==
    /\ ix.pc = "batches"
    /\ ix.pending = {}
    /\ LET num_indexed == IndexReturn(ix.total, ix.failed)
       IN  /\ ix' = [ix EXCEPT !.pc = "done", !.ret = num_indexed]
           /\ last' = Call("process_document", ix.tenant, <<"tmp", "-", "a.txt">>,
                           "success", num_indexed, <<>>)
    /\ UNCHANGED <<vdb, persistDir, documents, processing_status, bgTasks, sq, st, th, acct>>

IndexNext ==
    \/ \E t \in Tenants \cup {NoOrg}, total \in IxTotals : IxStart(t, total)
    \/ \E b \in 0..(MaxIxBatches - 1), raises \in BOOLEAN : IxBatch(b, raises)
    \/ IxFinish

IndexSpec == Init /\ [][IndexNext]_vars

\* C10: index_chunks returns the number of chunks of the batches that were
\* indexed: with a failed batch the number is smaller than the number of
\* chunks submitted, and process_document reports no failed chunk as
\* indexed.
C10_CountsIndexedChunksOnly ==
    ix.pc = "done" =>
        /\ ix.ret = Cardinality(vdb)
        /\ ix.failed # {} => ix.ret < ix.total
        /\ last.num = Cardinality(vdb)

-----------------------------------------------------------------------------
(* The identity of chunks in the index (Spec) *)

SameIdentity(c, d) ==
    /\ c.owner = d.owner
    /\ c.source_file = d.source_file
    /\ c.chunk_index = d.chunk_index

\* C11: the index holds at most one chunk for each (tenant, source
\* document, chunk_index), also after the same document is ingested twice.
C11_OneChunkPerIdentity ==
    \A c, d \in vdb : SameIdentity(c, d) => c = d

-----------------------------------------------------------------------------
(* process_document and delete_document alone (IngestSpec) *)

IngestNext ==
    \/ \E t \in Tenants \cup {NoOrg}, path \in FilePaths, in \in ProcessInputs(MaxDocChunks) :
            ProcessDocument(t, path, in)
    \/ \E t \in Tenants \cup {NoOrg}, path \in FilePaths : ProcessDocumentWithOrg(t, path)
    \/ \E t \in Tenants, path \in FilePaths, raises \in BOOLEAN : DeleteDocument(t, path, raises)
    \/ \E t \in Tenants, path \in FilePaths : DeleteDocumentWithOrg(t, path)

IngestSpec == Init /\ [][IngestNext]_vars

\* The failures process_document expects: a file type it has no loader
\* for, and a loader that raises.
ExpectedFailure(in) == in.ftype \notin SupportedTypes \/ in.load = "raise"

\* C12: for an unsupported file type or a loader failure process_document
\* raises nothing: it returns success = false, num_chunks = 0 and a
\* message, and the index is as it was.
C12_ExpectedFailuresReported ==
    [][\A t \in Tenants \cup {NoOrg}, path \in FilePaths, in \in ProcessInputs(MaxDocChunks) :
        (ExpectedFailure(in) /\ ProcessDocument(t, path, in)) =>
            /\ last'.outcome = "failure"
            /\ last'.num = 0
            /\ ProcessResult(vdb, path, in.ftype, t, in.load, in.texts, in.failed).message # ""
            /\ vdb' = vdb
            /\ persistDir' = persistDir]_vars

\* A failure reported by process_document while the index holds chunks.
C12_Witness ==
    /\ last.op = "process_document"
    /\ last.outcome = "failure"
    /\ last.num = 0
    /\ vdb # {}

\* C13: process_document never returns success = true with num_chunks =
\* 0: a document without text content (no page, or pages that give no
\* chunk) is reported with success = false.
C13_NoContentIsFailure ==
    (last.op = "process_document" /\ last.outcome = "success") => last.num > 0

-----------------------------------------------------------------------------
(* Unreachable index, and greetings (StreamSpec) *)

\* C14: when every similarity search of a query raises, the query ends
\* with the source tag "error"; the no-evidence answer comes only when a
\* search ran and found nothing.
C14_UnreachableIndexIsError ==
    (st.pc \notin {"idle", "created"} /\ st.allRaised) =>
        /\ st.path = "error"
        /\ st.path # "no_results"

-----------------------------------------------------------------------------
(* Upload and its background task (DocSpec) *)

DocNext ==
    \/ \E t \in Tenants, ftype \in FileTypes : UploadDocument(t, ftype)
    \/ \E t \in Tenants, ftype \in FileTypes : UploadRefused(t, ftype)
    \/ \E task \in bgTasks : BackgroundStart(task)
    \/ \E task \in bgTasks : BackgroundRun(task)
    \/ \E t \in Tenants \cup {NoOrg}, path \in FilePaths, in \in ProcessInputs(MaxDocChunks) :
            ProcessDocument(t, path, in)
    \/ \E t \in Tenants, id \in DocIds, mode \in WhereModes : DeleteEndpoint(t, id, mode)
    \/ \E t \in Tenants, id \in DocIds : DeleteEndpointNotFound(t, id)

\* A task queued with background_tasks.add_task runs once the response is
\* sent, and runs to its end.
DocSpec ==
    /\ Init
    /\ [][DocNext]_vars
    /\ WF_vars(\E task \in bgTasks : BackgroundStart(task))
    /\ WF_vars(\E task \in bgTasks : BackgroundRun(task))

\* C15: after the upload of a supported document the status of its
\* background task goes from queued to completed: process_document takes
\* the tenant argument the task passes, and the task ends completed.
C15_UploadCompletes ==
    \A d \in DocIds :
        (processing_status[d] = "queued") ~> (processing_status[d] = "completed")

\* The pleasantries of the claim as typed, with the canned response of
\* each.
PleasantryQueries == {<<"hi">>, <<Space, "HI", Space>>, <<"Thanks">>, <<"BYE", Space>>}

CannedFor(q) ==
    IF q \in {<<"hi">>, <<Space, "HI", Space>>} THEN <<Word("Hello")>>
    ELSE IF q = <<"Thanks">> THEN <<Word("You're welcome")>>
    ELSE <<Word("Goodbye")>>

\* C16: a query that is "hi", "thanks" or "bye" in any letter case and
\* with white space around it is answered with the canned response, tagged
\* greeting, without query expansion, vector search or language-model
\* call.
C16_GreetingShortCircuits ==
    (st.pc \notin {"idle", "created"} /\ st.query \in PleasantryQueries) =>
        /\ st.path = "greeting"
        /\ st.calls = {}
        /\ st.results = <<>>
        /\ st.stream => st.events = <<Event(CannedFor(st.query), "greeting", TRUE)>>
        /\ ~st.stream => st.ret = Pair(CannedFor(st.query), "greeting")

\* The run of " HI " in streaming mode, consumed to its end.
C16_Witness ==
    /\ st.pc = "finished"
    /\ st.stream
    /\ st.query = <<Space, "HI", Space>>
    /\ st.path = "greeting"
    /\ Len(st.events) = 1

-----------------------------------------------------------------------------
(* expand_query, and the search that follows it (ExpandSpec) *)

MaxExpandChunks == 2   \* chunks of the index the expanded queries search

LongQuery == [i \in 1..(LongQueryThreshold + 2) |-> IF i = 1 THEN "leave" ELSE "please"]
ExpandQueries == {<<"leave">>, <<"dress">>, LongQuery}

ExpandInit ==
    /\ \E tx \in SeqsUpTo(Texts, MaxExpandChunks) : vdb = SearchIndex(tx)
    /\ persistDir = TRUE
    /\ documents = {}
    /\ processing_status = [d \in DocIds |-> "unknown"]
    /\ bgTasks = {}
    /\ last = Call("none", NoOrg, NoPath, "", 0, <<>>)
    /\ sq = SqIdle
    /\ st = StIdle
    /\ ix = IxIdle
    /\ th = ThIdle
    /\ acct = AcctIdle

\* Step 1 of search: expand_query(query), with the language model's answer
\* e.
ExExpand(q, e) ==
    /\ sq.pc = "idle"
    /\ sq' = [pc |-> "expanded", query |-> q, resp |-> e,
              expanded |-> ExpandQuery(q, e), llmCalls |-> ExpandCalls(q),
              results |-> <<>>]
    /\ UNCHANGED <<mainVars, st, ix, th, acct>>

\* Steps 2 to 6 of search, over the expanded queries.
ExSearch(rr) ==
    /\ sq.pc = "expanded"
    /\ sq' = [sq EXCEPT !.pc = "searched",
                        !.results = Search(vdb, persistDir, sq.query, 0, sq.resp, {}, rr)]
    /\ UNCHANGED <<mainVars, st, ix, th, acct>>

ExpandNext ==
    \/ \E q \in ExpandQueries, e \in SearchExpansions : ExExpand(q, e)
    \/ \E rr \in MainReranks : ExSearch(rr)

ExpandSpec == ExpandInit /\ [][ExpandNext]_vars

\* C17: expand_query returns a list that begins with the query as given
\* and has at most EXPANSION_KEYWORDS + 1 elements, for every query and
\* every answer of the language model.
C17_ExpansionBounded ==
    sq.pc \in {"expanded", "searched"} =>
        /\ Len(sq.expanded) >= 1
        /\ sq.expanded[1] = sq.query
        /\ Len(sq.expanded) <= EXPANSION_KEYWORDS + 1

\* The language model answered more lines than EXPANSION_KEYWORDS and the
\* list was cut.
C17_Witness ==
    /\ sq.pc = "expanded"
    /\ sq.resp.kind = "text"
    /\ Len(DropBlank(sq.resp.lines)) > EXPANSION_KEYWORDS
    /\ Len(sq.expanded) = EXPANSION_KEYWORDS + 1

\* C18: when the language model fails during the expansion, expand_query
\* returns the query alone, and the search goes on with it: over an index
\* that holds chunks it returns evidence.
C18_ExpansionFailureDegrades ==
    (sq.pc \in {"expanded", "searched"} /\ sq.resp.kind = "raise") =>
        /\ sq.expanded = <<sq.query>>
        /\ (sq.pc = "searched" /\ vdb # {}) =>
            /\ sq.results # <<>>
            /\ \A i \in DOMAIN sq.results :
                  sq.results[i].score = Dist(sq.query, sq.results[i].doc.text)

\* A search that ended with evidence after the expansion failed.
C18_Witness ==
    /\ sq.pc = "searched"
    /\ sq.resp.kind = "raise"
    /\ sq.results # <<>>

IsLong(q) == Len(q) > LongQueryThreshold

\* C19 (as stated): for a query longer than the threshold expand_query
\* returns the query alone and calls no language model.
C19_LongQuerySkipsExpansion ==
    (sq.pc \in {"expanded", "searched"} /\ IsLong(sq.query)) =>
        /\ sq.expanded = <<sq.query>>
        /\ sq.llmCalls = 0

\* C19 (as amended): expand_query has no long-query threshold: for a long
\* query too it calls the language model once and returns the query
\* followed by the first EXPANSION_KEYWORDS non-blank lines of the answer;
\* it returns the query alone only when the call fails or the answer has
\* no such line.
C19_LongQueryIsExpanded ==
    (sq.pc \in {"expanded", "searched"} /\ IsLong(sq.query)) =>
        /\ sq.llmCalls = 1
        /\ sq.expanded[1] = sq.query
        /\ sq.resp.kind = "text" =>
              /\ Len(sq.expanded) =
                    1 + Min2(EXPANSION_KEYWORDS, Len(DropBlank(sq.resp.lines)))
              /\ \A i \in 2..Len(sq.expanded) :
                    sq.expanded[i] = DropBlank(sq.resp.lines)[i - 1]
        /\ sq.resp.kind = "raise" => sq.expanded = <<sq.query>>

\* A long query that was expanded.
C19_Witness ==
    /\ sq.pc = "expanded"
    /\ IsLong(sq.query)
    /\ Len(sq.expanded) > 1

-----------------------------------------------------------------------------
(* The stamps of the chunks (IndexSpec) *)

\* C20: the chunks of a document of N chunks carry chunk_index 0..N-1,
\* each once, total_chunks = N, the source given to the ingestion call,
\* and, as organization_id, the tenant given to the ingestion call.
C20_ChunksStamped ==
    ix.pc # "idle" =>
        /\ \A c \in vdb :
            /\ c.chunk_index \in 0..(ix.total - 1)
            /\ c.total_chunks = ix.total
            /\ c.source_file = <<"tmp", "-", "a.txt">>
            /\ c.org = ix.tenant
        /\ \A c, d \in vdb : c.chunk_index = d.chunk_index => c = d

-----------------------------------------------------------------------------
(* Step 6 of search: the relevance of the results (ScoreSpec) *)

MaxScore == 130        \* largest distance the index returns, in units of 1

\* The chunk with id i of an index of two chunks.
Kth2(i) == CHOOSE c \in SearchIndex(<<"leave", "dress">>) : c.id = i

\* Two candidates as the ranking leaves them, in any order of distance.
ScoreCandidates(s1, s2) ==
    [i \in 1..2 |->
        [doc |-> Kth2(i), score |-> IF i = 1 THEN s1 ELSE s2]]

\* "for i, (doc, score) in enumerate(sorted_results[:k])"
ScFormat(s1, s2) ==
    /\ sq.pc = "idle"
    /\ sq' = [pc |-> "formatted",
              results |-> FormatResults(ScoreCandidates(s1, s2), 0)]
    /\ UNCHANGED <<mainVars, st, ix, th, acct>>

ScoreNext == \E s1 \in 0..MaxScore, s2 \in 0..MaxScore : ScFormat(s1, s2)

ScoreSpec == Init /\ [][ScoreNext]_vars

\* C21: every result of search has a relevance_score in [0, 1] (0..1000
\* thousandths), and of two results the one with the smaller distance
\* never has the smaller relevance_score.
C21_RelevanceBoundedMonotone ==
    sq.pc = "formatted" =>
        /\ \A i \in DOMAIN sq.results :
              sq.results[i].relevance >= 0 /\ sq.results[i].relevance <= 1000
        /\ \A i, j \in DOMAIN sq.results :
              sq.results[i].score < sq.results[j].score =>
                  sq.results[i].relevance >= sq.results[j].relevance

\* Two results, one nearer than 100 and one farther: the farther has
\* relevance 0, the nearer more.
C21_Witness ==
    /\ sq.pc = "formatted"
    /\ Len(sq.results) = 2
    /\ sq.results[1].score > 100 /\ sq.results[1].relevance = 0
    /\ sq.results[2].score < 100 /\ sq.results[2].relevance > 0

-----------------------------------------------------------------------------
(* The singletons of rag_utils.py (l.612-639) and the lazy vector-index     *)
(* handle of SearchEngine (l.323-332), with the threads that reach them:    *)
(* FastAPI runs process_document_background and the streaming generator in  *)
(* worker threads, so first calls can interleave at every bytecode boundary.*)
(* Instances are numbered in the order of their construction; 0 is None.    *)
(* handed[k] is the set of values the getter of k has returned so far, and  *)
(* vhanded the set of handles the vectordb property has returned.           *)

NumThreads == 2

MaxBuilt == 2

Threads == 1..NumThreads

Kinds == {"processor", "search_engine", "generator"}

LockFree == 0

ThStart ==
    [pc |-> "run",
     inst |-> [k \in Kinds |-> 0],
     built |-> [k \in Kinds |-> 0],
     lock |-> LockFree,
     vectordb |-> 0,
     vbuilt |-> 0,
     at |-> [t \in Threads |-> "idle"],
     kind |-> [t \in Threads |-> "processor"],
     handed |-> [k \in Kinds |-> {}],
     vhanded |-> {}]

SingletonInit ==
    /\ vdb = {}
    /\ persistDir \in BOOLEAN
    /\ documents = {}
    /\ processing_status = [d \in DocIds |-> "none"]
    /\ bgTasks = {}
    /\ last = MainIdle
    /\ sq = SqIdle
    /\ st = StIdle
    /\ ix = IxIdle
    /\ th = ThStart
    /\ acct = AcctIdle

ThUnchanged == UNCHANGED <<mainVars, sq, st, ix, acct>>

\* a caller enters get_processor / get_search_engine / get_generator
GetCall(t, k) ==
    /\ th.pc = "run"
    /\ th.at[t] = "idle"
    /\ th' = [th EXCEPT !.at[t] = "check1", !.kind[t] = k]
    /\ ThUnchanged

\* the first, unlocked `if _x is None`
AfterCheck1(i) == IF i = 0 THEN "acquire" ELSE "return"

GetCheck1(t) ==
    /\ th.pc = "run"
    /\ th.at[t] = "check1"
    /\ th' = [th EXCEPT !.at[t] = AfterCheck1(th.inst[th.kind[t]])]
    /\ ThUnchanged

\* `with _lock:` blocks until the one module-level lock is free
GetAcquire(t) ==
    /\ th.pc = "run"
    /\ th.at[t] = "acquire"
    /\ th.lock = LockFree
    /\ th' = [th EXCEPT !.at[t] = "check2", !.lock = t]
    /\ ThUnchanged

AfterCheck2Always(i) == "construct"

\* the second `if _x is None`, under the lock
AfterCheck2(i) == IF i = 0 THEN "construct" ELSE "release"

GetCheck2(t) ==
    /\ th.pc = "run"
    /\ th.at[t] = "check2"
    /\ th' = [th EXCEPT !.at[t] = AfterCheck2(th.inst[th.kind[t]])]
    /\ ThUnchanged

\* `_x = X()`: the constructors only build client objects
GetConstruct(t) ==
    /\ th.pc = "run"
    /\ th.at[t] = "construct"
    /\ th.built[th.kind[t]] < MaxBuilt
    /\ th' = [th EXCEPT !.at[t] = "release",
                        !.built[th.kind[t]] = @ + 1,
                        !.inst[th.kind[t]] = th.built[th.kind[t]] + 1]
    /\ ThUnchanged

\* leaving the `with` block
GetRelease(t) ==
    /\ th.pc = "run"
    /\ th.at[t] = "release"
    /\ th' = [th EXCEPT !.at[t] = "return", !.lock = LockFree]
    /\ ThUnchanged

\* `return _x`
GetReturn(t) ==
    /\ th.pc = "run"
    /\ th.at[t] = "return"
    /\ th' = [th EXCEPT !.at[t] = "use",
                        !.handed[th.kind[t]] = @ \cup {th.inst[th.kind[t]]}]
    /\ ThUnchanged

\* the caller works with the instance: embedding and language-model calls
\* for the processor and the generator, the vectordb property for the
\* search engine
UseInstance(t) ==
    /\ th.pc = "run"
    /\ th.at[t] = "use"
    /\ th' = [th EXCEPT !.at[t] =
                 IF th.kind[t] = "search_engine" THEN "vcheck" ELSE "idle"]
    /\ ThUnchanged

\* SearchEngine.vectordb: `if self._vectordb is None and os.path.exists(...)`
VectordbCheck(t) ==
    /\ th.pc = "run"
    /\ th.at[t] = "vcheck"
    /\ th' = [th EXCEPT !.at[t] =
                 IF th.vectordb = 0 /\ persistDir THEN "vconstruct" ELSE "vreturn"]
    /\ ThUnchanged

\* `self._vectordb = Chroma(...)`
VectordbConstruct(t) ==
    /\ th.pc = "run"
    /\ th.at[t] = "vconstruct"
    /\ th.vbuilt < MaxBuilt
    /\ th' = [th EXCEPT !.at[t] = "vreturn",
                        !.vbuilt = @ + 1,
                        !.vectordb = th.vbuilt + 1]
    /\ ThUnchanged

\* `return self._vectordb`
VectordbReturn(t) ==
    /\ th.pc = "run"
    /\ th.at[t] = "vreturn"
    /\ th' = [th EXCEPT !.at[t] = "query", !.vhanded = @ \cup {th.vectordb}]
    /\ ThUnchanged

\* the similarity search (or delete, or count) on the handle
VectordbQuery(t) ==
    /\ th.pc = "run"
    /\ th.at[t] = "query"
    /\ th' = [th EXCEPT !.at[t] = "idle"]
    /\ ThUnchanged

SingletonNext ==
    \/ \E t \in Threads, k \in Kinds : GetCall(t, k)
    \/ \E t \in Threads : GetCheck1(t)
    \/ \E t \in Threads : GetAcquire(t)
    \/ \E t \in Threads : GetCheck2(t)
    \/ \E t \in Threads : GetConstruct(t)
    \/ \E t \in Threads : GetRelease(t)
    \/ \E t \in Threads : GetReturn(t)
    \/ \E t \in Threads : UseInstance(t)
    \/ \E t \in Threads : VectordbCheck(t)
    \/ \E t \in Threads : VectordbConstruct(t)
    \/ \E t \in Threads : VectordbReturn(t)
    \/ \E t \in Threads : VectordbQuery(t)

SingletonSpec == SingletonInit /\ [][SingletonNext]_vars

InCriticalSection == {"check2", "construct", "release"}

\* C22: whatever the interleaving of first calls of the three getters, each
\* class is constructed at most once, every caller gets that one instance
\* (never None), and the lock is held only between its acquisition and the
\* end of the construction, never while a caller works with an instance.
C22_SingletonsBuiltOnce ==
    th.pc = "run" =>
        /\ \A k \in Kinds : th.built[k] <= 1
        /\ \A k \in Kinds : 0 \notin th.handed[k]
        /\ \A k \in Kinds : Cardinality(th.handed[k]) <= 1
        /\ \A t \in Threads :
              th.lock = t => th.at[t] \in InCriticalSection
        /\ th.lock # LockFree => th.at[th.lock] \in InCriticalSection

\* two first calls raced: one passed the unlocked check while the instance
\* was None, waited for the lock, and now finds the instance the other built
C22_Witness ==
    /\ th.pc = "run"
    /\ \E t \in Threads :
          /\ th.at[t] = "check2"
          /\ th.inst[th.kind[t]] # 0
          /\ th.handed[th.kind[t]] # {}

\* C23: the vector-index handle of the search engine is constructed at most
\* once, even when several threads reach the vectordb property for the first
\* time together, and every query gets that handle.
C23_VectordbBuiltOnce ==
    th.pc = "run" =>
        /\ th.vbuilt <= 1
        /\ Cardinality(th.vhanded \ {0}) <= 1

-----------------------------------------------------------------------------
(* Chunking: get_adaptive_splitter (rag_utils.py l.193-202) configures a    *)
(* RecursiveCharacterTextSplitter with the separators "\n\n", "\n", ". ",   *)
(* " ", "" and chunk_documents (l.229-230) runs it on each document.        *)
(* A text is a sequence of characters: "a" stands for any letter, "N" for   *)
(* the newline.  A piece of the text is a pair <<lo, hi>> of cut points     *)
(* (the characters lo+1..hi), so that the place of every cut is kept; the   *)
(* splitter strips the white space at both ends of a chunk afterwards.      *)
(* The window and the overlap are scaled down from Config.CHUNK_SIZES and   *)
(* Config.CHUNK_OVERLAP.                                                    *)

MaxChunkLen == 3       \* chunk_size

ChunkOverlap == 1      \* chunk_overlap

MaxText == 6           \* characters of a document

Chars == {"a", " ", ".", "N"}

Whitespace == {" ", "N"}

SeparatorsNoWord == << <<"N", "N">>, <<"N">>, <<".", " ">>, <<>> >>

\* separators=["\n\n", "\n", ". ", " ", ""]
Separators == << <<"N", "N">>, <<"N">>, <<".", " ">>, <<" ">>, <<>> >>

\* the separator matches the text right after cut point p, within ..hi
MatchAt(text, hi, sep, p) ==
    /\ p + Len(sep) <= hi
    /\ \A i \in 1..Len(sep) : text[p + i] = sep[i]

\* re.split: the leftmost matches that do not overlap, from cut point p on
RECURSIVE MatchStarts(_, _, _, _)
MatchStarts(text, p, hi, sep) ==
    IF p >= hi THEN <<>>
    ELSE IF MatchAt(text, hi, sep, p)
         THEN <<p>> \o MatchStarts(text, p + Len(sep), hi, sep)
         ELSE MatchStarts(text, p + 1, hi, sep)

\* _split_text_with_regex with keep_separator: each separator stays at the
\* start of the piece that follows it; empty pieces are dropped; the empty
\* separator splits into characters
SplitTextWithRegex(text, lo, hi, sep) ==
    IF sep = <<>>
    THEN [i \in 1..(hi - lo) |-> <<lo + i - 1, lo + i>>]
    ELSE LET cuts == <<lo>> \o MatchStarts(text, lo, hi, sep) \o <<hi>>
             pieces == [i \in 1..(Len(cuts) - 1) |-> <<cuts[i], cuts[i + 1]>>]
         IN  SelectSeq(pieces, LAMBDA iv : iv[1] < iv[2])

PieceLen(iv) == iv[2] - iv[1]

\* _join_docs: the pieces joined, or nothing when only white space is left
JoinDocs(text, cur) ==
    IF cur = <<>> THEN <<>>
    ELSE LET iv == <<cur[1][1], cur[Len(cur)][2]>>
         IN  IF \A i \in (iv[1] + 1)..iv[2] : text[i] \in Whitespace
             THEN <<>> ELSE <<iv>>

\* "while total > chunk_overlap or (total + _len > chunk_size and total > 0)"
RECURSIVE PopOverlap(_, _, _)
PopOverlap(cur, total, len) ==
    IF total > ChunkOverlap \/ (total + len > MaxChunkLen /\ total > 0)
    THEN PopOverlap(Tail(cur), total - PieceLen(cur[1]), len)
    ELSE [cur |-> cur, total |-> total]

\* _merge_splits, from the i-th piece on
RECURSIVE MergeFrom(_, _, _, _)
MergeFrom(text, splits, i, acc) ==
    IF i > Len(splits) THEN acc.docs \o JoinDocs(text, acc.cur)
    ELSE LET d == splits[i]
             full == acc.total + PieceLen(d) > MaxChunkLen /\ acc.cur # <<>>
             kept == IF full THEN PopOverlap(acc.cur, acc.total, PieceLen(d))
                     ELSE [cur |-> acc.cur, total |-> acc.total]
         IN  MergeFrom(text, splits, i + 1,
                 [docs |-> IF full THEN acc.docs \o JoinDocs(text, acc.cur)
                           ELSE acc.docs,
                  cur |-> Append(kept.cur, d),
                  total |-> kept.total + PieceLen(d)])

MergeSplits(text, splits) ==
    MergeFrom(text, splits, 1, [docs |-> <<>>, cur |-> <<>>, total |-> 0])

\* the first separator of the list, from the k-th on, that occurs in the piece
RECURSIVE PickSeparator(_, _, _, _)
PickSeparator(text, lo, hi, k) ==
    IF Separators[k] = <<>> \/ MatchStarts(text, lo, hi, Separators[k]) # <<>>
    THEN k
    ELSE PickSeparator(text, lo, hi, k + 1)

\* _split_text: pieces shorter than chunk_size are merged, a longer one is
\* split again with the separators that follow
RECURSIVE SplitText(_, _, _, _)
RECURSIVE SplitLoop(_, _, _, _, _)
SplitLoop(text, splits, i, good, k) ==
    IF i > Len(splits)
    THEN (IF good # <<>> THEN MergeSplits(text, good) ELSE <<>>)
    ELSE LET s == splits[i] IN
         IF PieceLen(s) < MaxChunkLen
         THEN SplitLoop(text, splits, i + 1, Append(good, s), k)
         ELSE (IF good # <<>> THEN MergeSplits(text, good) ELSE <<>>)
              \o (IF Separators[k] = <<>> THEN <<s>>
                  ELSE SplitText(text, s[1], s[2], k + 1))
              \o SplitLoop(text, splits, i + 1, <<>>, k)

SplitText(text, lo, hi, k) ==
    LET j == PickSeparator(text, lo, hi, k)
    IN  SplitLoop(text, SplitTextWithRegex(text, lo, hi, Separators[j]), 1, <<>>, j)

\* splitter.split_documents(documents), for one document
SplitDocument(text) == SplitText(text, 0, Len(text), 1)

ChunkTexts == SeqsUpTo(Chars, MaxText)

\* chunk_documents on a loaded document
ChSplit(text) ==
    /\ ix.pc = "idle"
    /\ ix' = [pc |-> "chunked", text |-> text, chunks |-> SplitDocument(text)]
    /\ UNCHANGED <<mainVars, sq, st, th, acct>>

ChunkNext == \E text \in ChunkTexts : ChSplit(text)

ChunkSpec == Init /\ [][ChunkNext]_vars

\* 1: a paragraph separator starts at cut point p, ... 4: a space, 5: none
RankAt(text, p) ==
    CASE p \in Range(MatchStarts(text, 0, Len(text), <<"N", "N">>)) -> 1
      [] MatchAt(text, Len(text), <<"N">>, p) -> 2
      [] MatchAt(text, Len(text), <<".", " ">>, p) -> 3
      [] MatchAt(text, Len(text), <<" ">>, p) -> 4
      [] OTHER -> 5

MidWord(text, p) == p > 0 /\ p < Len(text) /\ text[p] = "a" /\ text[p + 1] = "a"

\* the cut points at which a chunk that starts at s could end
Window(text, s) == (s + 1)..(Min2(s + MaxChunkLen, Len(text)) - 1)

\* C24: where a chunk ends before the end of the text, the cut is at the
\* strongest kind of separator that starts within the chunk's window
\* (paragraph, then line, then sentence, then word); the text is cut at a
\* place where no separator starts, and so in the middle of a word, only
\* when no separator starts within the window.
C24_CutsAtSeparators ==
    ix.pc = "chunked" =>
        \A c \in DOMAIN ix.chunks :
            LET s == ix.chunks[c][1]
                e == ix.chunks[c][2]
            IN  e < Len(ix.text) =>
                  /\ \A q \in Window(ix.text, s) :
                        RankAt(ix.text, q) >= RankAt(ix.text, e)
                  /\ MidWord(ix.text, e) =>
                        \A q \in Window(ix.text, s) : RankAt(ix.text, q) = 5

\* a text with a long word after a short one: one chunk ends at the space,
\* the next in the middle of the long word
C24_Witness ==
    /\ ix.pc = "chunked"
    /\ \E c \in DOMAIN ix.chunks :
          ix.chunks[c][2] < Len(ix.text) /\ RankAt(ix.text, ix.chunks[c][2]) = 4
    /\ \E c \in DOMAIN ix.chunks : MidWord(ix.text, ix.chunks[c][2])

-----------------------------------------------------------------------------
(* detect_content_type (rag_utils.py l.174-191).  A text is the sequence of *)
(* its lines, text.split('\n'): the empty text is one empty line.           *)

MaxLines == 4

ListLine == "- item"

HeadingLine == "# head"

CodeLine == "def f():"

PlainLine == "plain"

BlankLine == ""

Lines == {ListLine, HeadingLine, CodeLine, PlainLine, BlankLine}

EmptyText == <<BlankLine>>

DetectTexts == UNION {[1..n -> Lines] : n \in 1..MaxLines}

\* re.findall(r'^\s*[\d\-\*•]\s+', text, re.MULTILINE)
ListPattern(text) == Cardinality({i \in DOMAIN text : text[i] = ListLine})

\* re.findall(r'^#+\s+', text, re.MULTILINE)
HeadingPattern(text) == Cardinality({i \in DOMAIN text : text[i] = HeadingLine})

\* re.findall(r'```|def |class |function ', text, re.IGNORECASE)
CodePattern(text) == Cardinality({i \in DOMAIN text : text[i] = CodeLine})

\* the comparisons with total_lines * 0.1, * 0.2 and * 0.15, in integers
DetectContentType(text) ==
    LET total_lines == Len(text)
    IN  IF 10 * CodePattern(text) > total_lines THEN "technical"
        ELSE IF 5 * (ListPattern(text) + HeadingPattern(text)) > total_lines
             THEN "structured"
        ELSE IF 20 * HeadingPattern(text) > 3 * total_lines THEN "structured"
        ELSE "narrative"

ContentTypes == {"technical", "structured", "narrative", "default"}

\* "content_type = self.detect_content_type(full_text)"
DtDetect(text) ==
    /\ ix.pc = "idle"
    /\ ix' = [pc |-> "detected", text |-> text,
              content_type |-> DetectContentType(text)]
    /\ UNCHANGED <<mainVars, sq, st, th, acct>>

DetectNext == \E text \in DetectTexts : DtDetect(text)

DetectSpec == Init /\ [][DetectNext]_vars

\* C25: detect_content_type gives one of technical, structured, narrative
\* and default for every text, and default for the empty text.
C25_EmptyTextIsDefault ==
    ix.pc = "detected" =>
        /\ ix.content_type \in ContentTypes
        /\ ix.text = EmptyText => ix.content_type = "default"

-----------------------------------------------------------------------------
(* User management of one organization (main.py): login (l.472-496), the    *)
(* tenant middleware (l.136-150), update_user_role (l.791-852) and          *)
(* remove_user_from_organization (l.854-916).  The handlers are coroutines: *)
(* another request can run at each await on the database, so a request is   *)
(* a slot that advances from one database call to the next.                 *)

MaxRequests == 2

Users == {"u1", "u2"}

Roles == {"admin", "employee"}

RoleInputs == Roles \cup {"owner"}

Slots == 1..MaxRequests

SlotIdle == [at |-> "idle"]

\* an organization as its signup and its invitations leave it: u1 is the
\* admin who created it, u2 was invited with either role
AcctStarts ==
    {[pc |-> "run",
      users |-> [u \in Users |->
                    [role |-> IF u = "u1" THEN "admin" ELSE r,
                     is_active |-> TRUE]],
      tokens |-> {},
      reqs |-> [q \in Slots |-> SlotIdle]] : r \in Roles}

AccountInit ==
    /\ vdb = {}
    /\ persistDir = FALSE
    /\ documents = {}
    /\ processing_status = [d \in DocIds |-> "none"]
    /\ bgTasks = {}
    /\ last = MainIdle
    /\ sq = SqIdle
    /\ st = StIdle
    /\ ix = IxIdle
    /\ th = ThIdle
    /\ acct \in AcctStarts

AcctUnchanged == UNCHANGED <<mainVars, sq, st, ix, th>>

SlotFree(q) == acct.pc = "run" /\ acct.reqs[q].at \in {"idle", "done"}

Respond(q, status) == [acct EXCEPT !.reqs[q] = [at |-> "done", status |-> status]]

\* POST /auth/login: the token carries the role the user has at that moment
Login(u) ==
    /\ acct.pc = "run"
    /\ [user |-> u, role |-> acct.users[u].role] \notin acct.tokens
    /\ acct' = [acct EXCEPT !.tokens = @ \cup {[user |-> u, role |-> acct.users[u].role]}]
    /\ AcctUnchanged

\* the middleware takes user_id and role from the token; the handler checks
\* the role and the new role's value
UpdateRoleStart(q, tok, target, role) ==
    /\ SlotFree(q)
    /\ tok \in acct.tokens
    /\ acct' = IF tok.role # "admin" THEN Respond(q, 403)
               ELSE IF role \notin Roles THEN Respond(q, 400)
               ELSE [acct EXCEPT !.reqs[q] =
                        [at |-> "ur_find", tok |-> tok, target |-> target,
                         role |-> role]]
    /\ AcctUnchanged

\* users_collection.find_one by id and organization; "You cannot change
\* your own role"
UpdateRoleFind(q) ==
    /\ acct.pc = "run"
    /\ acct.reqs[q].at = "ur_find"
    /\ acct' = IF acct.reqs[q].target = acct.reqs[q].tok.user
               THEN Respond(q, 400)
               ELSE [acct EXCEPT !.reqs[q].at = "ur_update"]
    /\ AcctUnchanged

\* users_collection.update_one: $set role
UpdateRoleWrite(q) ==
    /\ acct.pc = "run"
    /\ acct.reqs[q].at = "ur_update"
    /\ acct' = [Respond(q, 200) EXCEPT
                   !.users[acct.reqs[q].target].role = acct.reqs[q].role]
    /\ AcctUnchanged

RemoveStart(q, tok, target) ==
    /\ SlotFree(q)
    /\ tok \in acct.tokens
    /\ acct' = IF tok.role # "admin" THEN Respond(q, 403)
               ELSE [acct EXCEPT !.reqs[q] =
                        [at |-> "rm_find", tok |-> tok, target |-> target]]
    /\ AcctUnchanged

\* find_one; "You cannot remove yourself from the organization"
RemoveFind(q) ==
    /\ acct.pc = "run"
    /\ acct.reqs[q].at = "rm_find"
    /\ acct' = IF acct.reqs[q].target = acct.reqs[q].tok.user
               THEN Respond(q, 400)
               ELSE [acct EXCEPT !.reqs[q] =
                        [at |-> "rm_count", tok |-> acct.reqs[q].tok,
                         target |-> acct.reqs[q].target,
                         user_role |-> acct.users[acct.reqs[q].target].role]]
    /\ AcctUnchanged

ActiveAdmins(users) ==
    {u \in Users : users[u].role = "admin" /\ users[u].is_active}

\* count_documents of the active admins; "Cannot remove the last admin"
RemoveCount(q) ==
    /\ acct.pc = "run"
    /\ acct.reqs[q].at = "rm_count"
    /\ acct' = IF acct.reqs[q].user_role = "admin"
                  /\ Cardinality(ActiveAdmins(acct.users)) <= 1
               THEN Respond(q, 400)
               ELSE [acct EXCEPT !.reqs[q].at = "rm_update"]
    /\ AcctUnchanged

\* update_one: $set is_active False
RemoveWrite(q) ==
    /\ acct.pc = "run"
    /\ acct.reqs[q].at = "rm_update"
    /\ acct' = [Respond(q, 200) EXCEPT
                   !.users[acct.reqs[q].target].is_active = FALSE]
    /\ AcctUnchanged

AllTokens == [user : Users, role : Roles]

AccountNext ==
    \/ \E u \in Users : Login(u)
    \/ \E q \in Slots, tok \in AllTokens, target \in Users, role \in RoleInputs :
          UpdateRoleStart(q, tok, target, role)
    \/ \E q \in Slots : UpdateRoleFind(q)
    \/ \E q \in Slots : UpdateRoleWrite(q)
    \/ \E q \in Slots, tok \in AllTokens, target \in Users :
          RemoveStart(q, tok, target)
    \/ \E q \in Slots : RemoveFind(q)
    \/ \E q \in Slots : RemoveCount(q)
    \/ \E q \in Slots : RemoveWrite(q)

AccountSpec == AccountInit /\ [][AccountNext]_vars

\* C26: the organization, which starts with an active admin, has an active
\* admin after any role updates and removals made with tokens issued before.
C26_KeepsAnAdmin ==
    acct.pc = "run" => ActiveAdmins(acct.users) # {}

-----------------------------------------------------------------------------
(* One invitation (invitation_service.py): accept_invitation (l.139-216),   *)
(* reached without authentication through POST /invitations/accept/{token}, *)
(* and revoke_invitation (l.242-279).  Each await on the database is a      *)
(* point where another request can run.  status is the invitation's status  *)
(* in the database, expired tells whether expires_at is in the past, and    *)
(* created counts the users inserted with the invitation's email, on which  *)
(* database.py l.54 declares a unique index.                                *)

InviteStart ==
    [pc |-> "invite",
     status |-> "pending",
     expired |-> FALSE,
     created |-> 0,
     reqs |-> [q \in Slots |-> SlotIdle]]

InviteInit ==
    /\ vdb = {}
    /\ persistDir = FALSE
    /\ documents = {}
    /\ processing_status = [d \in DocIds |-> "none"]
    /\ bgTasks = {}
    /\ last = MainIdle
    /\ sq = SqIdle
    /\ st = StIdle
    /\ ix = IxIdle
    /\ th = ThIdle
    /\ acct = InviteStart

InviteFree(q) == acct.pc = "invite" /\ acct.reqs[q].at \in {"idle", "done"}

\* datetime.utcnow() passes expires_at
InviteExpires ==
    /\ acct.pc = "invite"
    /\ ~acct.expired
    /\ acct' = [acct EXCEPT !.expired = TRUE]
    /\ AcctUnchanged

\* "invitation = await invitations_collection.find_one({"token": token})"
AcceptFind(q) ==
    /\ InviteFree(q)
    /\ acct' = [acct EXCEPT !.reqs[q] = [at |-> "ac_check", seen |-> acct.status]]
    /\ AcctUnchanged

\* the tests of the status and of expires_at on the invitation as read
AcceptCheck(q) ==
    /\ acct.pc = "invite"
    /\ acct.reqs[q].at = "ac_check"
    /\ acct' = IF acct.reqs[q].seen # "pending" THEN Respond(q, 400)
               ELSE IF acct.expired
                    THEN [Respond(q, 400) EXCEPT !.status = "expired"]
                    ELSE [acct EXCEPT !.reqs[q].at = "ac_exists"]
    /\ AcctUnchanged

\* "existing_user = await users_collection.find_one({"email": ...})"
AcceptExists(q) ==
    /\ acct.pc = "invite"
    /\ acct.reqs[q].at = "ac_exists"
    /\ acct' = IF acct.created > 0 THEN Respond(q, 400)
               ELSE [acct EXCEPT !.reqs[q].at = "ac_insert"]
    /\ AcctUnchanged

\* "await users_collection.insert_one(new_user)": the unique index on email
\* makes the insertion of a second user raise
AcceptInsert(q) ==
    /\ acct.pc = "invite"
    /\ acct.reqs[q].at = "ac_insert"
    /\ acct' = IF acct.created > 0 THEN Respond(q, 500)
               ELSE [acct EXCEPT !.created = @ + 1, !.reqs[q].at = "ac_update"]
    /\ AcctUnchanged

\* "$set": {"status": "accepted"}
AcceptUpdate(q) ==
    /\ acct.pc = "invite"
    /\ acct.reqs[q].at = "ac_update"
    /\ acct' = [Respond(q, 200) EXCEPT !.status = "accepted"]
    /\ AcctUnchanged

\* revoke_invitation: find_one by id, then the test of the organization
RevokeFind(q) ==
    /\ InviteFree(q)
    /\ acct' = [acct EXCEPT !.reqs[q] = [at |-> "rv_update"]]
    /\ AcctUnchanged

\* "$set": {"status": "revoked"}
RevokeUpdate(q) ==
    /\ acct.pc = "invite"
    /\ acct.reqs[q].at = "rv_update"
    /\ acct' = [Respond(q, 200) EXCEPT !.status = "revoked"]
    /\ AcctUnchanged

InviteNext ==
    \/ InviteExpires
    \/ \E q \in Slots : AcceptFind(q)
    \/ \E q \in Slots : AcceptCheck(q)
    \/ \E q \in Slots : AcceptExists(q)
    \/ \E q \in Slots : AcceptInsert(q)
    \/ \E q \in Slots : AcceptUpdate(q)
    \/ \E q \in Slots : RevokeFind(q)
    \/ \E q \in Slots : RevokeUpdate(q)

InviteSpec == InviteInit /\ [][InviteNext]_vars

FinalStatuses == {"accepted", "revoked", "expired"}

\* C29: at most one user is ever created for the invitation, and once its
\* status is accepted, revoked or expired no step creates a user or changes
\* the status.
C29_InvitationSingleUse ==
    [][acct.pc = "invite" =>
          /\ acct'.created <= 1
          /\ acct.status \in FinalStatuses =>
                (acct'.status = acct.status /\ acct'.created = acct.created)]_vars

-----------------------------------------------------------------------------
(* The result list of search after the re-ranking (rag_utils.py l.375-395). *)

-----------------------------------------------------------------------------
(* A document deleted while its background task is queued or running: the  *)
(* document endpoints of main.py (upload l.1530-1600, the task l.1477-1507, *)
(* delete l.1774-1832), beside an index that process_document has filled    *)
(* from other files.                                                        *)

RaceNext ==
    \/ \E t \in Tenants, ftype \in FileTypes : UploadDocument(t, ftype)
    \/ \E t \in Tenants, ftype \in FileTypes : UploadRefused(t, ftype)
    \/ \E task \in bgTasks : BackgroundStart(task)
    \/ \E task \in bgTasks : BackgroundRun(task)
    \/ \E t \in Tenants, id \in DocIds, mode \in WhereModes : DeleteEndpoint(t, id, mode)
    \/ \E t \in Tenants, id \in DocIds : DeleteEndpointNotFound(t, id)
    \/ \E t \in Tenants \cup {NoOrg}, path \in DirectPaths, in \in ProcessInputs(MaxDocChunks) :
            ProcessDocument(t, path, in)

RaceSpec == Init /\ [][RaceNext]_vars

DeletedDuringIngestion(task) ==
    /\ task \in bgTasks
    /\ ~\E doc \in documents : doc.id = task.doc_id

-----------------------------------------------------------------------------
(* is_greeting_or_smalltalk (rag_utils.py l.714-759) on queries that begin  *)
(* with a pleasantry and go on.                                             *)

MaxGreetWords == 3

GreetWords == {"hi", "thank", "you", "bye", "later", "what", "leave"}

GreetQueries == UNION {[1..n -> GreetWords] : n \in 1..MaxGreetWords}

\* "is_smalltalk, smalltalk_response = is_greeting_or_smalltalk(query)"
GrClassify(q) ==
    /\ st.pc = "idle"
    /\ st' = [pc |-> "classified", query |-> q,
              smalltalk |-> IsGreetingOrSmalltalk(QueryLower(q))]
    /\ UNCHANGED <<mainVars, sq, ix, th, acct>>

GreetNext == \E q \in GreetQueries : GrClassify(q)

GreetSpec == Init /\ [][GreetNext]_vars

\* the query asks about something: it has a word that is no pleasantry
AsksSomething(q) == \E i \in DOMAIN q : q[i] \in {"what", "leave"}

\* C30: a query is classified as small talk only when it consists of
\* pleasantries alone; a query that begins with "thank you", "bye" or "later"
\* and then asks something is not.
C30_OnlyWholePleasantries ==
    (st.pc = "classified" /\ st.smalltalk) => ~AsksSomething(QueryLower(st.query))
====
